---- MODULE Spec2Model ----
(***************************************************************************)
(* smart-schedulers: the coordination plane of planner, dispatcher, ack    *)
(* consumer and timeout sweeper over the scheduler command table, the      *)
(* device audit log and the minute idempotency store.                      *)
(*                                                                         *)
(* Time.  Every stored timestamp is kept as its offset from the current    *)
(* instant (t - now), so `x <= now_utc` in the code reads `x <= 0` here.   *)
(* An offset stops at 0 once the instant is reached: the code only asks    *)
(* whether a stored time is at or before now.  Tick lets one clock unit    *)
(* pass.                                                                   *)
(***************************************************************************)
EXTENDS Integers, Sequences, FiniteSets, TLC

\* --------------------------------------------------- configuration values
AckTimeoutSec == 1      \* SCHEDULER_ACK_TIMEOUT_SEC (floor 1)
RetryBackoffSec == 1    \* SCHEDULER_DISPATCH_RETRY_BACKOFF_SEC
RetryJitterSec == 1     \* SCHEDULER_DISPATCH_RETRY_JITTER_SEC
MaxRetry == 1           \* SCHEDULER_DISPATCH_MAX_RETRY
MaxInflight == 1        \* SCHEDULER_MAX_INFLIGHT_PER_MICROCONTROLLER
DispatchBatchSize == 2  \* SCHEDULER_DISPATCH_BATCH_SIZE
SweeperBatchSize == 1   \* SCHEDULER_TIMEOUT_SWEEPER_BATCH_SIZE
PlannerBatchSize == 1   \* SCHEDULER_PLANNER_BATCH_SIZE
IdempotencyTtlSec == 4  \* SCHEDULER_IDEMPOTENCY_TTL_SEC, in clock units
TtlFloor == 1           \* the 30 s floor of the TTL: a clock unit is 30 s
MinuteLen == 2          \* clock units in a wall-clock minute
MaxWall == 2            \* planners are followed through wall-clock 0..MaxWall
MaxStarts == 2          \* planner process starts followed, restarts included
MaxCommands == 2        \* command rows followed in one run
MaxClock == 5           \* readings 0..MaxClock of a clock that jumps
PowerThreshold == 2     \* a slot's power threshold, in kW
ProviderInterval == 1   \* a provider's expected_interval_sec, in clock units
MaxConcurrency == 1     \* SCHEDULER_MAX_CONCURRENCY (floor 1)
WideInflight == 2       \* an in-flight cap that lets a batch hold two commands

\* ---------------------------------------------------------------- values
Null == -1              \* None / SQL NULL of a nullable timestamp column

Devices == {1, 2}
\* Device.microcontroller_id: both devices hang on microcontroller 1.
DeviceMc(d) == 1
Microcontrollers == {DeviceMc(d) : d \in Devices}
Dispatchers == {1, 2}   \* dispatcher replicas (processes)
Planners == {1, 2}      \* planner replicas (processes)

Actions == {"ON", "OFF"}
NonTerminal == {"PENDING", "IN_FLIGHT", "PENDING_RETRY"}
Terminal == {"ACK_OK", "ACK_FAIL"}
\* An ack's actual_state / an audit event's pin_state: a bool or None.
PinStates == {"none", "true", "false"}

VARIABLES
    commands,   \* scheduler_commands table: command_id (index) -> row
    audit,      \* device_events table, in insertion order
    devices,    \* devices table: runtime columns
    dpc,        \* dispatcher replica -> place in SchedulerDispatcher.run
    dlocked,    \* dispatcher replica -> rows its open claim transaction locks
    dnow,       \* dispatcher replica -> now_utc of its pass, as elapsed units
    dbatch,     \* dispatcher replica -> claimed commands of the current pass
    dres,       \* dispatcher replica -> publish result per claimed command
    delivered,  \* command ids whose publish reached the transport
    pubs,       \* command_id -> publishes attempted, as <<ok, failed>> counts
    lateAcks,   \* command ids acked when already terminal (history)
    wall,       \* wall clock in clock units, read by the planners
    kv,         \* Redis: idempotency key -> seconds to live (0: no such key)
    planner,    \* planner replica -> SchedulerEngine and its idempotency store
    life,       \* process 1: lifecycle position, stop events, worker tasks
    slot,       \* slot 1 of device 1: threshold, provider, latest measurement
    ackDrop,    \* the last ack message dropped: why, and the audit length then
    lost        \* idempotency key -> wall time up to which the TTL of an
                \* acquisition runs whose page was never committed (history)

vars == <<commands, audit, devices, dpc, dlocked, dnow, dbatch, dres, delivered,
          pubs, lateAcks, wall, kv, planner, life, slot, ackDrop, lost>>

dispatchVars == <<dpc, dlocked, dnow, dbatch, dres>>
plannerVars == <<wall, kv, planner>>

\* ------------------------------------------------------------ time helpers
\* One clock unit passes for a stored timestamp.
Age(t) == IF t = Null THEN Null ELSE IF t = 0 THEN 0 ELSE t - 1

Min(a, b) == IF a < b THEN a ELSE b

IsDue(t) == t # Null /\ t <= 0

\* ------------------------------------------------------------------ audit
\* SchedulerAuditService.create_event: one appended device_events row.  cmd is
\* history only (the command the event closes, 0 for none).
create_event(log, device_id, event_name, trigger_reason, pin_state, cmd) ==
    Append(log, [device_id |-> device_id, event_name |-> event_name,
                 trigger_reason |-> trigger_reason, pin_state |-> pin_state,
                 cmd |-> cmd])

\* ------------------------------------------------- SchedulerCommandRepository
NewCommand(device_id, slot_id, minute_key, action, trigger_reason) ==
    [device_id |-> device_id, microcontroller_id |-> DeviceMc(device_id),
     slot_id |-> slot_id, minute_key |-> minute_key, action |-> action,
     trigger_reason |-> trigger_reason,
     status |-> "PENDING", attempt |-> 0,
     ack_deadline_at |-> Null, next_attempt_at |-> Null]

SameKey(a, b) ==
    /\ a.device_id = b.device_id /\ a.slot_id = b.slot_id
    /\ a.minute_key = b.minute_key /\ a.action = b.action

\* Mutant of ClaimCandidates: the next_attempt_at condition is missing.
ClaimCandidates_any_time(cmds, lockedByOthers) ==
    {i \in DOMAIN cmds :
        /\ cmds[i].status \in {"PENDING", "PENDING_RETRY"}
        /\ i \notin lockedByOthers}

\* Rows a claim may take: PENDING / PENDING_RETRY, due, and not locked by
\* another open claim transaction (FOR UPDATE SKIP LOCKED).
ClaimCandidates(cmds, lockedByOthers) ==
    {i \in DOMAIN cmds :
        /\ cmds[i].status \in {"PENDING", "PENDING_RETRY"}
        /\ (cmds[i].next_attempt_at = Null \/ cmds[i].next_attempt_at <= 0)
        /\ i \notin lockedByOthers}

\* ORDER BY next_attempt_at NULLS FIRST, command_id (Null is below every time).
ClaimBefore(cmds, i, j) ==
    \/ cmds[i].next_attempt_at < cmds[j].next_attempt_at
    \/ cmds[i].next_attempt_at = cmds[j].next_attempt_at /\ i < j

RECURSIVE ClaimOrder(_, _)
ClaimOrder(cmds, S) ==
    IF S = {} THEN << >>
    ELSE LET first == CHOOSE i \in S : \A j \in S \ {i} : ClaimBefore(cmds, i, j)
         IN  <<first>> \o ClaimOrder(cmds, S \ {first})

TakeFirst(s, n) == SubSeq(s, 1, IF Len(s) < n THEN Len(s) ELSE n)

InFlightOf(cmds, mc) ==
    {i \in DOMAIN cmds :
        cmds[i].status = "IN_FLIGHT" /\ cmds[i].microcontroller_id = mc}

\* The fairness filter: a row is kept while its microcontroller has fewer than
\* the cap of rows IN_FLIGHT (as this transaction reads them) or already kept.
RECURSIVE FairnessFilter(_, _, _, _)
FairnessFilter(cmds, rows, kept, cap) ==
    IF rows = << >> THEN kept
    ELSE LET c == Head(rows)
             mc == cmds[c].microcontroller_id
             used == Cardinality(InFlightOf(cmds, mc))
                     + Cardinality({k \in 1..Len(kept) :
                                      cmds[kept[k]].microcontroller_id = mc})
         IN  FairnessFilter(cmds, Tail(rows),
                            IF used < cap THEN Append(kept, c) ELSE kept, cap)

\* claim_pending_for_dispatch, the SELECT: rows read and locked, rows kept.
ClaimSelected(cmds, lockedByOthers, limit) ==
    TakeFirst(ClaimOrder(cmds, ClaimCandidates(cmds, lockedByOthers)), limit)

\* claim_pending_for_dispatch, the UPDATE of the kept rows; now_utc is the
\* offset (<= 0) of the instant the caller read the clock.
ClaimUpdate(cmds, kept, now_utc, ack_timeout_sec) ==
    [i \in DOMAIN cmds |->
        IF \E k \in 1..Len(kept) : kept[k] = i
        THEN [cmds[i] EXCEPT !.status = "IN_FLIGHT",
                             !.attempt = @ + 1,
                             !.ack_deadline_at = now_utc + ack_timeout_sec]
        ELSE cmds[i]]

\* mark_publish_failure on one row; jitter is the uniform(0, retry_jitter_sec)
\* draw.  Leaves a row that is not IN_FLIGHT alone (the caller gets None).
mark_publish_failure(cmds, command_id, max_retry, retry_backoff_sec, jitter) ==
    IF command_id \notin DOMAIN cmds \/ cmds[command_id].status # "IN_FLIGHT"
    THEN cmds
    ELSE IF cmds[command_id].attempt < max_retry + 1
    THEN [cmds EXCEPT ![command_id].status = "PENDING_RETRY",
                      ![command_id].ack_deadline_at = Null,
                      ![command_id].next_attempt_at = 0 + retry_backoff_sec + jitter]
    ELSE [cmds EXCEPT ![command_id].status = "ACK_FAIL"]

\* Mutant of mark_ack_changed: the terminal check is missing.
mark_ack_changed_unguarded(cmds, command_id) ==
    command_id \in DOMAIN cmds

\* mark_ack: changed is false for an unknown or already terminal command.
mark_ack_changed(cmds, command_id) ==
    command_id \in DOMAIN cmds /\ cmds[command_id].status \notin Terminal

mark_ack(cmds, command_id, transport_ok) ==
    IF mark_ack_changed(cmds, command_id)
    THEN [cmds EXCEPT ![command_id].status =
                          IF transport_ok THEN "ACK_OK" ELSE "ACK_FAIL"]
    ELSE cmds

\* Mutant of TimedOut: the `status = IN_FLIGHT` condition is missing.
TimedOut_any_status(cmds, now_utc) ==
    {i \in DOMAIN cmds :
        /\ cmds[i].ack_deadline_at # Null
        /\ cmds[i].ack_deadline_at <= now_utc}

\* claim_timeouts: the rows a sweep at now_utc may take.
TimedOut(cmds, now_utc) ==
    {i \in DOMAIN cmds :
        /\ cmds[i].status = "IN_FLIGHT"
        /\ cmds[i].ack_deadline_at # Null
        /\ cmds[i].ack_deadline_at <= now_utc}

claim_timeouts(cmds, rows) ==
    [i \in DOMAIN cmds |->
        IF i \in rows THEN [cmds[i] EXCEPT !.status = "ACK_FAIL"] ELSE cmds[i]]

\* SchedulerRuntimeRepository.update_device_state
update_device_state(devs, device_id, is_on) ==
    [devs EXCEPT ![device_id] = [manual_state |-> is_on,
                                 last_state_change_at |-> 0]]

\* ------------------------------------------------- MinuteIdempotencyStore
Max(a, b) == IF a > b THEN a ELSE b

Minute(w) == w \div MinuteLen
PlanMinutes == 0..Minute(MaxWall)

\* _acquire_entry_idempotency: the key of an entry, a minute and an action.
IdemKey(device_id, slot_id, minute, action) ==
    <<device_id, slot_id, minute, action>>

PlanKeys == {IdemKey(1, 1, m, a) : m \in PlanMinutes, a \in Actions}

\* MinuteIdempotencyStore.__init__: no client yet, an empty map.  A map value
\* is the time left to the entry's expire_at; Null is no entry.
NewStore(ttl_sec) ==
    [ttl_sec |-> Max(TtlFloor, ttl_sec), redis |-> FALSE,
     memory |-> [k \in PlanKeys |-> Null]]

\* MinuteIdempotencyStore.start: the client is kept if the ping succeeds.
start(store, ping_ok) == [store EXCEPT !.redis = ping_ok]

\* MinuteIdempotencyStore._acquire_memory: prune, then test and set.
_acquire_memory(store, key) ==
    LET pruned == [k \in PlanKeys |->
                     IF store.memory[k] # Null /\ store.memory[k] > 0
                     THEN store.memory[k] ELSE Null]
    IN  IF pruned[key] # Null
        THEN [result |-> FALSE, memory |-> pruned]
        ELSE [result |-> TRUE,
              memory |-> [pruned EXCEPT ![key] = store.ttl_sec]]

\* Mutant of acquire: `self._redis = None` is missing from the except branch.
acquire_keeping_client(store, redis_kv, key, redis_error) ==
    IF store.redis /\ ~redis_error
    THEN IF redis_kv[key] > 0
         THEN [result |-> FALSE, store |-> store, kv |-> redis_kv]
         ELSE [result |-> TRUE, store |-> store,
               kv |-> [redis_kv EXCEPT ![key] = store.ttl_sec]]
    ELSE LET m == _acquire_memory(store, key)
         IN  [result |-> m.result,
              store |-> [store EXCEPT !.memory = m.memory],
              kv |-> redis_kv]

\* MinuteIdempotencyStore.acquire: SET key NX EX ttl on the client, or after
\* a Redis error (and from then on) the in-memory map.
acquire(store, redis_kv, key, redis_error) ==
    IF store.redis /\ ~redis_error
    THEN IF redis_kv[key] > 0
         THEN [result |-> FALSE, store |-> store, kv |-> redis_kv]
         ELSE [result |-> TRUE, store |-> store,
               kv |-> [redis_kv EXCEPT ![key] = store.ttl_sec]]
    ELSE LET m == _acquire_memory(store, key)
         IN  [result |-> m.result,
              store |-> [store EXCEPT !.redis = FALSE, !.memory = m.memory],
              kv |-> redis_kv]

\* ---------------------------------------------------------------- planner
\* The schedule: slot 1 of device 1 begins in minute 0 and ends in minute 1.
\* None for a provider row and for a measurement row:
NoProvider ==
    [present |-> FALSE, enabled |-> FALSE, expected_interval_sec |-> Null,
     unit |-> "none"]
NoMeasurement ==
    [present |-> FALSE, age |-> 0, measured_value |-> Null,
     measured_unit |-> "none"]

\* A slot without power threshold, provider and measurement:
NoThreshold ==
    [use_power_threshold |-> FALSE, power_threshold_value |-> Null,
     power_threshold_unit |-> "none", provider |-> NoProvider,
     latest |-> NoMeasurement]

\* DueSchedulerEntry of the slot as fetch_due_entries / fetch_end_entries
\* return it.
Entry(device_id, slot_id) ==
    [device_id |-> device_id, slot_id |-> slot_id,
     use_power_threshold |-> slot.use_power_threshold,
     power_threshold_value |-> slot.power_threshold_value,
     power_threshold_unit |-> slot.power_threshold_unit]

DueSlots(minute) == IF minute = 0 THEN <<Entry(1, 1)>> ELSE << >>
EndSlots(minute) == IF minute = 1 THEN <<Entry(1, 1)>> ELSE << >>

Page(rows, limit, offset) ==
    SubSeq(rows, offset + 1, Min(offset + limit, Len(rows)))

\* SchedulerRuntimeRepository.fetch_due_entries / fetch_end_entries
fetch_due_entries(minute, limit, offset) == Page(DueSlots(minute), limit, offset)
fetch_end_entries(minute, limit, offset) == Page(EndSlots(minute), limit, offset)

\* _normalize_unit: None and blank are None, w / kw / mw in any case are
\* W / kW / MW, anything else is passed through.
_normalize_unit(value) ==
    IF value \in {"none", ""} THEN "none"
    ELSE IF value \in {"w", "W"} THEN "W"
    ELSE IF value \in {"kw", "kW", "KW"} THEN "kW"
    ELSE IF value \in {"mw", "MW"} THEN "MW"
    ELSE value

_POWER_FACTORS == [W |-> 1, kW |-> 1000, MW |-> 1000000]

\* _convert_power_unit: watts / to_factor, kept as the fraction <<watts,
\* to_factor>>; << >> (None) for a missing or unknown unit.
_convert_power_unit(value, from_unit, to_unit) ==
    LET normalized_from == _normalize_unit(from_unit)
        normalized_to == _normalize_unit(to_unit)
    IN  IF normalized_from = "none" \/ normalized_to = "none" THEN << >>
        ELSE IF normalized_from \notin DOMAIN _POWER_FACTORS
                \/ normalized_to \notin DOMAIN _POWER_FACTORS THEN << >>
        ELSE <<value * _POWER_FACTORS[normalized_from],
               _POWER_FACTORS[normalized_to]>>

Decision(kind, trigger_reason, measured_value, measured_unit) ==
    [kind |-> kind, trigger_reason |-> trigger_reason,
     measured_value |-> measured_value, measured_unit |-> measured_unit]

\* Mutant of decide: both comparisons are turned round at the boundary, the
\* age test is `>=` and the threshold test is `>`.
decide_strict(entry, provider, latest_measurement) ==
    IF ~entry.use_power_threshold
    THEN Decision("ALLOW_ON", "SCHEDULER_MATCH", << >>, "none")
    ELSE LET threshold_value == entry.power_threshold_value
             threshold_unit == _normalize_unit(entry.power_threshold_unit)
         IN
         IF threshold_value = Null \/ threshold_unit = "none"
         THEN Decision("SKIP_NO_POWER_DATA", "THRESHOLD_CONFIG_MISSING", << >>, "none")
         ELSE IF ~provider.present \/ ~provider.enabled
         THEN Decision("SKIP_NO_POWER_DATA", "POWER_PROVIDER_UNAVAILABLE", << >>, "none")
         ELSE IF provider.expected_interval_sec = Null
                 \/ provider.expected_interval_sec <= 0
         THEN Decision("SKIP_NO_POWER_DATA", "POWER_INTERVAL_MISSING", << >>, "none")
         ELSE IF ~latest_measurement.present
         THEN Decision("SKIP_NO_POWER_DATA", "POWER_MISSING", << >>, "none")
         ELSE IF latest_measurement.age >= provider.expected_interval_sec
         THEN Decision("SKIP_NO_POWER_DATA", "POWER_STALE", << >>, "none")
         ELSE IF latest_measurement.measured_value = Null
         THEN Decision("SKIP_NO_POWER_DATA", "POWER_MISSING", << >>, "none")
         ELSE LET provider_unit == _normalize_unit(provider.unit)
                  normalized == _normalize_unit(latest_measurement.measured_unit)
                  measurement_unit == IF normalized = "none" THEN provider_unit
                                      ELSE normalized
                  converted == _convert_power_unit(
                                   latest_measurement.measured_value,
                                   measurement_unit, threshold_unit)
              IN  IF converted = << >>
                  THEN Decision("SKIP_NO_POWER_DATA", "POWER_UNIT_MISMATCH", << >>, "none")
                  ELSE IF converted[1] > threshold_value * converted[2]
                  THEN Decision("ALLOW_ON", "SCHEDULER_MATCH", converted, threshold_unit)
                  ELSE Decision("SKIP_THRESHOLD_NOT_MET", "THRESHOLD_NOT_MET",
                                converted, threshold_unit)

\* SchedulerDecisionService.decide; latest_measurement.age is now_utc -
\* measured_at.
decide(entry, provider, latest_measurement) ==
    IF ~entry.use_power_threshold
    THEN Decision("ALLOW_ON", "SCHEDULER_MATCH", << >>, "none")
    ELSE LET threshold_value == entry.power_threshold_value
             threshold_unit == _normalize_unit(entry.power_threshold_unit)
         IN
         IF threshold_value = Null \/ threshold_unit = "none"
         THEN Decision("SKIP_NO_POWER_DATA", "THRESHOLD_CONFIG_MISSING", << >>, "none")
         ELSE IF ~provider.present \/ ~provider.enabled
         THEN Decision("SKIP_NO_POWER_DATA", "POWER_PROVIDER_UNAVAILABLE", << >>, "none")
         ELSE IF provider.expected_interval_sec = Null
                 \/ provider.expected_interval_sec <= 0
         THEN Decision("SKIP_NO_POWER_DATA", "POWER_INTERVAL_MISSING", << >>, "none")
         ELSE IF ~latest_measurement.present
         THEN Decision("SKIP_NO_POWER_DATA", "POWER_MISSING", << >>, "none")
         ELSE IF latest_measurement.age > provider.expected_interval_sec
         THEN Decision("SKIP_NO_POWER_DATA", "POWER_STALE", << >>, "none")
         ELSE IF latest_measurement.measured_value = Null
         THEN Decision("SKIP_NO_POWER_DATA", "POWER_MISSING", << >>, "none")
         ELSE LET provider_unit == _normalize_unit(provider.unit)
                  normalized == _normalize_unit(latest_measurement.measured_unit)
                  measurement_unit == IF normalized = "none" THEN provider_unit
                                      ELSE normalized
                  converted == _convert_power_unit(
                                   latest_measurement.measured_value,
                                   measurement_unit, threshold_unit)
              IN  IF converted = << >>
                  THEN Decision("SKIP_NO_POWER_DATA", "POWER_UNIT_MISMATCH", << >>, "none")
                  ELSE IF converted[1] >= threshold_value * converted[2]
                  THEN Decision("ALLOW_ON", "SCHEDULER_MATCH", converted, threshold_unit)
                  ELSE Decision("SKIP_THRESHOLD_NOT_MET", "THRESHOLD_NOT_MET",
                                converted, threshold_unit)

\* enqueue_command: the insert is rejected while a command of the same
\* (device_id, slot_id, minute_key, action) is not terminal.
enqueue_conflict(cmds, row) ==
    \E i \in DOMAIN cmds :
        SameKey(cmds[i], row) /\ cmds[i].status \in NonTerminal

enqueue_command(cmds, row) ==
    IF enqueue_conflict(cmds, row) THEN cmds ELSE Append(cmds, row)

\* SchedulerEngine.__init__ of a process that is not running.  win and twice
\* are history of a store followed call by call: the time left of the TTL
\* window a granted key opened, and the keys granted again inside it.
PlannerOff ==
    [pc |-> "off", last |-> Null, minute |-> 0, offset |-> 0,
     page |-> << >>, done |-> 0, buf |-> << >>,
     store |-> NewStore(IdempotencyTtlSec), starts |-> 0,
     win |-> [k \in PlanKeys |-> 0], twice |-> {}]

\* _process_minute at a page boundary: fetch the next due page, after the
\* last due page the end pages, after the last end page the minute is done.
AfterFetch(rec) ==
    LET due == fetch_due_entries(rec.minute, PlannerBatchSize, rec.offset)
        end == fetch_end_entries(rec.minute, PlannerBatchSize,
                                 IF rec.pc = "due" THEN 0 ELSE rec.offset)
        fresh == [rec EXCEPT !.done = 0, !.buf = << >>]
    IN  IF rec.pc = "due" /\ due # << >> THEN [fresh EXCEPT !.page = due]
        ELSE IF end # << >>
        THEN [fresh EXCEPT !.pc = "end", !.page = end,
                           !.offset = IF rec.pc = "due" THEN 0 ELSE rec.offset]
        ELSE [fresh EXCEPT !.pc = "sleep", !.page = << >>, !.offset = 0,
                           !.last = rec.minute]

\* The writes of a page transaction, applied at db.commit().
RECURSIVE CommitWrites(_, _, _)
CommitWrites(cmds, log, buf) ==
    IF buf = << >> THEN [cmds |-> cmds, log |-> log]
    ELSE LET w == Head(buf)
         IN  IF w.kind = "command"
             THEN CommitWrites(enqueue_command(cmds, w.row), log, Tail(buf))
             ELSE CommitWrites(cmds,
                      create_event(log, w.device_id, w.event_name,
                                   w.trigger_reason, "false", 0),
                      Tail(buf))

RECURSIVE SumStarts(_)
SumStarts(P) ==
    IF P = {} THEN 0
    ELSE LET q == CHOOSE x \in P : TRUE
         IN  planner[q].starts + SumStarts(P \ {q})

\* -------------------------------------------------------------- lifecycle
WorkerNames == {"planner", "dispatcher", "ack", "sweeper"}

\* lifecycle.run up to `await shutdown_event.wait()`: a task is created for
\* every enabled worker, no stop event is set, the transport is open.
LifeStarted(enabled) ==
    [pc |-> "running",
     stop |-> [w \in WorkerNames |-> FALSE],
     task |-> [w \in WorkerNames |-> IF w \in enabled THEN "running" ELSE "none"],
     transport |-> "open"]

\* ------------------------------------------------------------------- Init
InitRows ==
    {NewCommand(1, 1, 0, "ON", "SCHEDULER_MATCH"),
     NewCommand(2, 1, 0, "OFF", "SCHEDULER_END")}

\* The command table as the planner left it: PENDING rows with distinct keys
\* (command ids are random, so one numbering of the rows stands for all).
InitTables ==
    {t \in [1..Cardinality(InitRows) -> InitRows] :
        /\ \A i, j \in DOMAIN t : i # j => ~SameKey(t[i], t[j])
        /\ t[1].action = "ON"}

\* Nothing dispatched, acked or logged yet; idle dispatchers; an empty Redis.
NoDrop == [kind |-> "none", at |-> 0]

InitIdle ==
    /\ audit = << >>
    /\ devices = [d \in Devices |->
                    [manual_state |-> "none", last_state_change_at |-> Null]]
    /\ dpc = [r \in Dispatchers |-> "idle"]
    /\ dlocked = [r \in Dispatchers |-> {}]
    /\ dnow = [r \in Dispatchers |-> 0]
    /\ dbatch = [r \in Dispatchers |-> << >>]
    /\ dres = [r \in Dispatchers |-> << >>]
    /\ delivered = {}
    /\ lateAcks = {}
    /\ wall = 0
    /\ kv = [k \in PlanKeys |-> 0]
    /\ ackDrop = NoDrop
    /\ lost = [k \in PlanKeys |-> 0]

Init ==
    /\ commands \in InitTables
    /\ pubs = [i \in DOMAIN commands |-> <<0, 0>>]
    /\ planner = [p \in Planners |-> [PlannerOff EXCEPT !.pc = "disabled"]]
    /\ life = LifeStarted({"dispatcher", "ack", "sweeper"})
    /\ slot = NoThreshold
    /\ InitIdle

\* ------------------------------------------------------------- dispatcher
LockedByOthers(r) == UNION {dlocked[q] : q \in Dispatchers \ {r}}

\* SchedulerDispatcher.run, from reading now_utc through the claim transaction
\* up to its UPDATE: the rows are selected and locked and the in-flight rows
\* are read as committed.
ClaimSelect(r) ==
    /\ dpc[r] = "idle"
    /\ dnow' = [dnow EXCEPT ![r] = 0]
    /\ LET selected == ClaimSelected(commands, LockedByOthers(r), DispatchBatchSize)
       IN  /\ dlocked' = [dlocked EXCEPT ![r] =
                            {selected[k] : k \in 1..Len(selected)}]
           /\ dbatch' = [dbatch EXCEPT ![r] =
                            FairnessFilter(commands, selected, << >>, MaxInflight)]
    /\ dpc' = [dpc EXCEPT ![r] = "claim_tx"]
    /\ UNCHANGED <<lost, ackDrop, slot, commands, audit, devices, dres, delivered, pubs, lateAcks, life,
                 plannerVars>>

\* Mutant of ClaimCommit: __init__ has no `max(1.0, ...)` floor and the
\* configured ack timeout is 0.
ClaimCommit_no_floor(r) ==
    /\ dpc[r] = "claim_tx"
    /\ commands' = ClaimUpdate(commands, dbatch[r], 0 - dnow[r], 0)
    /\ dlocked' = [dlocked EXCEPT ![r] = {}]
    /\ dnow' = [dnow EXCEPT ![r] = 0]
    /\ dres' = [dres EXCEPT ![r] = [k \in 1..Len(dbatch[r]) |-> "wait"]]
    /\ dpc' = [dpc EXCEPT ![r] = IF dbatch[r] = << >> THEN "idle" ELSE "publish"]
    /\ UNCHANGED <<lost, ackDrop, slot, audit, devices, dbatch, delivered, pubs, lateAcks, life,
                 plannerVars>>

\* Mutant of ClaimCommit: db.commit() is missing, the session closes and
\* rolls the claim's UPDATE back, and the loop goes on to publish.
ClaimCommit_rolled_back(r) ==
    /\ dpc[r] = "claim_tx"
    /\ dlocked' = [dlocked EXCEPT ![r] = {}]
    /\ dnow' = [dnow EXCEPT ![r] = 0]
    /\ dres' = [dres EXCEPT ![r] = [k \in 1..Len(dbatch[r]) |-> "wait"]]
    /\ dpc' = [dpc EXCEPT ![r] = IF dbatch[r] = << >> THEN "idle" ELSE "publish"]
    /\ UNCHANGED <<lost, ackDrop, slot, commands, audit, devices, dbatch, delivered, pubs, lateAcks, life,
                 plannerVars>>

\* SchedulerDispatcher.run, the claim's UPDATE and db.commit(); an empty claim
\* sleeps and polls again.
ClaimCommit(r) ==
    /\ dpc[r] = "claim_tx"
    /\ commands' = ClaimUpdate(commands, dbatch[r], 0 - dnow[r], AckTimeoutSec)
    /\ dlocked' = [dlocked EXCEPT ![r] = {}]
    /\ dnow' = [dnow EXCEPT ![r] = 0]
    /\ dres' = [dres EXCEPT ![r] = [k \in 1..Len(dbatch[r]) |-> "wait"]]
    /\ dpc' = [dpc EXCEPT ![r] = IF dbatch[r] = << >> THEN "idle" ELSE "publish"]
    /\ UNCHANGED <<lost, ackDrop, slot, audit, devices, dbatch, delivered, pubs, lateAcks, life,
                 plannerVars>>

\* SchedulerDispatcher._publish of the k-th claimed command: True, or False
\* when publish_command raised.  A publish that raised may still have reached
\* the transport (the error came after the send).
_publish(r, k) ==
    /\ dpc[r] = "publish"
    /\ k \in 1..Len(dbatch[r])
    /\ dres[r][k] = "wait"
    /\ LET c == dbatch[r][k]
       IN  \E result \in {"ok", "fail"}, sent \in BOOLEAN :
             /\ result = "ok" => sent
             /\ dres' = [dres EXCEPT ![r][k] = result]
             /\ delivered' = IF sent THEN delivered \cup {c} ELSE delivered
             /\ pubs' = [pubs EXCEPT ![c] =
                            IF result = "ok" THEN <<@[1] + 1, @[2]>>
                                             ELSE <<@[1], @[2] + 1>>]
    /\ UNCHANGED <<lost, ackDrop, slot, commands, audit, devices, dpc, dlocked, dnow, dbatch, lateAcks, life,
                 plannerVars>>

\* Mutant of found_for_publish_failure: mark_publish_failure hands back the
\* row whatever its status is.
found_for_publish_failure_any_status(cmds, command_id) ==
    command_id \in DOMAIN cmds

found_for_publish_failure(cmds, command_id) ==
    command_id \in DOMAIN cmds /\ cmds[command_id].status = "IN_FLIGHT"

\* Mutant of _handle_publish_failures: `if updated.status == ACK_FAIL` is
\* missing, every updated row gets the audit event.
RECURSIVE _handle_publish_failures_audit_all(_, _, _, _)
_handle_publish_failures_audit_all(cmds, log, command_ids, jit) ==
    IF command_ids = << >> THEN [cmds |-> cmds, log |-> log]
    ELSE LET id == Head(command_ids)
             updated == found_for_publish_failure(cmds, id)
             cmds2 == mark_publish_failure(cmds, id, MaxRetry,
                                           RetryBackoffSec, jit[id])
             log2 == IF updated
                     THEN create_event(log, cmds2[id].device_id,
                                       "SCHEDULER_ACK_FAILED",
                                       "DISPATCH_PUBLISH_FAILED", "none", id)
                     ELSE log
         IN  _handle_publish_failures_audit_all(cmds2, log2, Tail(command_ids), jit)

\* Mutant of _handle_publish_failures: max_retry is passed one too high.
RECURSIVE _handle_publish_failures_extra_retry(_, _, _, _)
_handle_publish_failures_extra_retry(cmds, log, command_ids, jit) ==
    IF command_ids = << >> THEN [cmds |-> cmds, log |-> log]
    ELSE LET id == Head(command_ids)
             updated == found_for_publish_failure(cmds, id)
             cmds2 == mark_publish_failure(cmds, id, MaxRetry + 1,
                                           RetryBackoffSec, jit[id])
             log2 == IF updated /\ cmds2[id].status = "ACK_FAIL"
                     THEN create_event(log, cmds2[id].device_id,
                                       "SCHEDULER_ACK_FAILED",
                                       "DISPATCH_PUBLISH_FAILED", "none", id)
                     ELSE log
         IN  _handle_publish_failures_extra_retry(cmds2, log2, Tail(command_ids), jit)

\* Mutant of _handle_publish_failures: max_retry is passed as 0.
RECURSIVE _handle_publish_failures_no_retry(_, _, _, _)
_handle_publish_failures_no_retry(cmds, log, command_ids, jit) ==
    IF command_ids = << >> THEN [cmds |-> cmds, log |-> log]
    ELSE LET id == Head(command_ids)
             updated == found_for_publish_failure(cmds, id)
             cmds2 == mark_publish_failure(cmds, id, 0, RetryBackoffSec, jit[id])
             log2 == IF updated /\ cmds2[id].status = "ACK_FAIL"
                     THEN create_event(log, cmds2[id].device_id,
                                       "SCHEDULER_ACK_FAILED",
                                       "DISPATCH_PUBLISH_FAILED", "none", id)
                     ELSE log
         IN  _handle_publish_failures_no_retry(cmds2, log2, Tail(command_ids), jit)

\* SchedulerDispatcher._handle_publish_failures: one transaction over the
\* failed ids; jit gives each id its jitter draw.
RECURSIVE _handle_publish_failures(_, _, _, _)
_handle_publish_failures(cmds, log, command_ids, jit) ==
    IF command_ids = << >> THEN [cmds |-> cmds, log |-> log]
    ELSE LET id == Head(command_ids)
             updated == found_for_publish_failure(cmds, id)
             cmds2 == mark_publish_failure(cmds, id, MaxRetry,
                                           RetryBackoffSec, jit[id])
             log2 == IF updated /\ cmds2[id].status = "ACK_FAIL"
                     THEN create_event(log, cmds2[id].device_id,
                                       "SCHEDULER_ACK_FAILED",
                                       "DISPATCH_PUBLISH_FAILED", "none", id)
                     ELSE log
         IN  _handle_publish_failures(cmds2, log2, Tail(command_ids), jit)

\* Mutant of FailedIds: every command of the batch is collected.
FailedIds_everything(batch, results) == batch

\* failed_command_ids of SchedulerDispatcher.run, in claim order.
FailedIds(batch, results) ==
    LET idx == SelectSeq([k \in 1..Len(batch) |-> k],
                         LAMBDA k : results[k] = "fail")
    IN  [n \in 1..Len(idx) |-> batch[idx[n]]]

\* SchedulerDispatcher.run after asyncio.gather: collect the failures, handle
\* them, and start the next pass.
FinishBatch(r) ==
    /\ dpc[r] = "publish"
    /\ \A k \in 1..Len(dres[r]) : dres[r][k] # "wait"
    /\ LET failed == FailedIds(dbatch[r], dres[r])
       IN  \E jit \in [{failed[n] : n \in 1..Len(failed)} -> 0..RetryJitterSec] :
             LET out == _handle_publish_failures(commands, audit, failed, jit)
             IN  /\ commands' = out.cmds
                 /\ audit' = out.log
    /\ dpc' = [dpc EXCEPT ![r] = "idle"]
    /\ dbatch' = [dbatch EXCEPT ![r] = << >>]
    /\ dres' = [dres EXCEPT ![r] = << >>]
    /\ UNCHANGED <<lost, ackDrop, slot, devices, dlocked, dnow, delivered, pubs, lateAcks, life,
                 plannerVars>>

\* ------------------------------------- dispatcher, publish tasks in detail
\* SchedulerDispatcher.run up to the claim's UPDATE, configured with the
\* in-flight cap WideInflight.
ClaimSelectWide(r) ==
    /\ dpc[r] = "idle"
    /\ dnow' = [dnow EXCEPT ![r] = 0]
    /\ LET selected == ClaimSelected(commands, LockedByOthers(r), DispatchBatchSize)
       IN  /\ dlocked' = [dlocked EXCEPT ![r] =
                            {selected[k] : k \in 1..Len(selected)}]
           /\ dbatch' = [dbatch EXCEPT ![r] =
                            FairnessFilter(commands, selected, << >>, WideInflight)]
    /\ dpc' = [dpc EXCEPT ![r] = "claim_tx"]
    /\ UNCHANGED <<lost, ackDrop, slot, commands, audit, devices, dres, delivered, pubs, lateAcks, life,
                 plannerVars>>

\* The publish tasks of replica r that hold the semaphore.
InProgress(r) == {k \in 1..Len(dres[r]) : dres[r][k] = "run"}

\* Mutant of PublishEnter: `async with self._semaphore` is missing.
PublishEnter_no_semaphore(r, k) ==
    /\ dpc[r] = "publish"
    /\ k \in 1..Len(dbatch[r])
    /\ dres[r][k] = "wait"
    /\ dres' = [dres EXCEPT ![r][k] = "run"]
    /\ UNCHANGED <<lost, ackDrop, slot, commands, audit, devices, dpc, dlocked, dnow, dbatch, delivered,
                   pubs, lateAcks, life, plannerVars>>

\* SchedulerDispatcher._publish, `async with self._semaphore`: the task of
\* the k-th claimed command acquires the semaphore of width max_concurrency
\* and calls publish_command.
PublishEnter(r, k) ==
    /\ dpc[r] = "publish"
    /\ k \in 1..Len(dbatch[r])
    /\ dres[r][k] = "wait"
    /\ Cardinality(InProgress(r)) < Max(1, MaxConcurrency)
    /\ dres' = [dres EXCEPT ![r][k] = "run"]
    /\ UNCHANGED <<lost, ackDrop, slot, commands, audit, devices, dpc, dlocked, dnow, dbatch, delivered,
                   pubs, lateAcks, life, plannerVars>>

\* SchedulerDispatcher._publish, publish_command returned or raised: the task
\* returns True or False and releases the semaphore.
PublishExit(r, k) ==
    /\ dpc[r] = "publish"
    /\ k \in 1..Len(dbatch[r])
    /\ dres[r][k] = "run"
    /\ LET c == dbatch[r][k]
       IN  \E result \in {"ok", "fail"}, sent \in BOOLEAN :
             /\ result = "ok" => sent
             /\ dres' = [dres EXCEPT ![r][k] = result]
             /\ delivered' = IF sent THEN delivered \cup {c} ELSE delivered
             /\ pubs' = [pubs EXCEPT ![c] =
                            IF result = "ok" THEN <<@[1] + 1, @[2]>>
                                             ELSE <<@[1], @[2] + 1>>]
    /\ UNCHANGED <<lost, ackDrop, slot, commands, audit, devices, dpc, dlocked, dnow, dbatch, lateAcks, life,
                 plannerVars>>

\* SchedulerDispatcher.run after asyncio.gather returned: every task is done.
GatherDone(r) ==
    /\ InProgress(r) = {}
    /\ FinishBatch(r)

\* ------------------------------------------------------------ ack consumer
\* Mutant of _event_name_for_ack: the status test is inverted.
_event_name_for_ack_inverted(action, status) ==
    IF status = "ACK_OK" THEN "SCHEDULER_ACK_FAILED"
    ELSE IF action = "ON" THEN "SCHEDULER_TRIGGER_ON"
    ELSE "DEVICE_OFF"

_event_name_for_ack(action, status) ==
    IF status # "ACK_OK" THEN "SCHEDULER_ACK_FAILED"
    ELSE IF action = "ON" THEN "SCHEDULER_TRIGGER_ON"
    ELSE "DEVICE_OFF"

\* Mutant of _handle_ack: `if not changed: rollback; return` is missing.
_handle_ack_ignoring_changed(cmds, devs, log, command_id, transport_ok, actual_state) ==
    LET cmds2 == mark_ack(cmds, command_id, transport_ok)
        command == cmds2[command_id]
    IN  IF command_id \notin DOMAIN cmds
        THEN [cmds |-> cmds, devs |-> devs, log |-> log]
        ELSE [cmds |-> cmds2,
              devs |-> IF command.status = "ACK_OK" /\ actual_state # "none"
                       THEN update_device_state(devs, command.device_id,
                                                actual_state)
                       ELSE devs,
              log |-> create_event(log, command.device_id,
                          _event_name_for_ack(command.action, command.status),
                          IF command.status = "ACK_OK" THEN "ACK_OK"
                                                       ELSE "ACK_FAILED",
                          actual_state, command_id)]

\* Mutant of _handle_ack: `command.status == ACK_OK` is missing from the test
\* before update_device_state.
_handle_ack_state_on_fail(cmds, devs, log, command_id, transport_ok, actual_state) ==
    LET changed == mark_ack_changed(cmds, command_id)
        cmds2 == mark_ack(cmds, command_id, transport_ok)
        command == cmds2[command_id]
    IN  IF command_id \notin DOMAIN cmds \/ ~changed
        THEN [cmds |-> cmds, devs |-> devs, log |-> log]
        ELSE [cmds |-> cmds2,
              devs |-> IF actual_state # "none"
                       THEN update_device_state(devs, command.device_id,
                                                actual_state)
                       ELSE devs,
              log |-> create_event(log, command.device_id,
                          _event_name_for_ack(command.action, command.status),
                          IF command.status = "ACK_OK" THEN "ACK_OK"
                                                       ELSE "ACK_FAILED",
                          actual_state, command_id)]

\* Mutant of _handle_ack: the event's trigger_reason is always ACK_OK and its
\* pin_state is not the reported state.
_handle_ack_fixed_event(cmds, devs, log, command_id, transport_ok, actual_state) ==
    LET changed == mark_ack_changed(cmds, command_id)
        cmds2 == mark_ack(cmds, command_id, transport_ok)
        command == cmds2[command_id]
    IN  IF command_id \notin DOMAIN cmds \/ ~changed
        THEN [cmds |-> cmds, devs |-> devs, log |-> log]
        ELSE [cmds |-> cmds2,
              devs |-> IF command.status = "ACK_OK" /\ actual_state # "none"
                       THEN update_device_state(devs, command.device_id,
                                                actual_state)
                       ELSE devs,
              log |-> create_event(log, command.device_id,
                          _event_name_for_ack(command.action, command.status),
                          "ACK_OK", "none", command_id)]

\* SchedulerAckConsumer._handle_ack for a decoded payload: the transaction.
_handle_ack(cmds, devs, log, command_id, transport_ok, actual_state) ==
    LET changed == mark_ack_changed(cmds, command_id)
        cmds2 == mark_ack(cmds, command_id, transport_ok)
        command == cmds2[command_id]
    IN  IF command_id \notin DOMAIN cmds \/ ~changed
        THEN [cmds |-> cmds, devs |-> devs, log |-> log]     \* db.rollback()
        ELSE [cmds |-> cmds2,
              devs |-> IF command.status = "ACK_OK" /\ actual_state # "none"
                       THEN update_device_state(devs, command.device_id,
                                                actual_state)
                       ELSE devs,
              log |-> create_event(log, command.device_id,
                          _event_name_for_ack(command.action, command.status),
                          IF command.status = "ACK_OK" THEN "ACK_OK"
                                                       ELSE "ACK_FAILED",
                          actual_state, command_id)]

\* An ack message for a command that reached the transport; the row is not
\* touched while a claim transaction holds its lock.
HandleAck(c, transport_ok, actual_state) ==
    /\ c \in delivered
    /\ c \notin UNION {dlocked[q] : q \in Dispatchers}
    /\ LET out == _handle_ack(commands, devices, audit, c, transport_ok,
                              actual_state)
       IN  /\ commands' = out.cmds
           /\ devices' = out.devs
           /\ audit' = out.log
    /\ lateAcks' = IF mark_ack_changed(commands, c) THEN lateAcks
                    ELSE lateAcks \cup {c}
    /\ UNCHANGED <<lost, ackDrop, slot, dpc, dlocked, dnow, dbatch, dres, delivered, pubs,
                 plannerVars, life>>

\* The payloads a message on the ack subject can carry: bytes that are not
\* JSON, JSON that is no object, an object whose `data` is absent or no
\* object, and a data object whose command_id is absent, no string, a string
\* that is no UUID, or the UUID of command id (MaxCommands + 1: of no row),
\* with the data object's `ok` and `actual_state`.
Message(raw, data, cid_kind, cid, ok, actual_state) ==
    [raw |-> raw, data |-> data, cid_kind |-> cid_kind, cid |-> cid,
     ok |-> ok, actual_state |-> actual_state]

Messages ==
    {Message("not_json", "absent", "absent", 0, FALSE, "none"),
     Message("not_dict", "absent", "absent", 0, FALSE, "none"),
     Message("dict", "absent", "absent", 0, FALSE, "none"),
     Message("dict", "not_dict", "absent", 0, FALSE, "none"),
     Message("dict", "dict", "absent", 0, TRUE, "true"),
     Message("dict", "dict", "not_str", 1, TRUE, "true"),
     Message("dict", "dict", "bad_str", 1, TRUE, "true")}
    \cup {Message("dict", "dict", "uuid", c, ok, st) :
             c \in 1..(MaxCommands + 1), ok \in BOOLEAN, st \in PinStates}

\* Mutant of _parse_uuid: a string that is no UUID is read as an id.
_parse_uuid_lenient(msg) ==
    IF msg.cid_kind \in {"absent", "not_str"} THEN 0 ELSE msg.cid

\* _parse_uuid(data.get("command_id")): 0 stands for None.
_parse_uuid(msg) ==
    IF msg.cid_kind \in {"absent", "not_str"} THEN 0      \* not isinstance str
    ELSE IF msg.cid_kind = "bad_str" THEN 0                \* ValueError
    ELSE msg.cid

\* _handle_ack up to mark_ack: what the handler logs when it drops the
\* message, "handled" when the command id is the id of a row.
AckOutcome(msg, cmds) ==
    IF msg.raw = "not_json" THEN "exception"
    ELSE IF msg.raw # "dict" \/ msg.data # "dict" THEN "no_data"
    ELSE IF _parse_uuid(msg) = 0 THEN "no_command_id"
    ELSE IF _parse_uuid(msg) \notin DOMAIN cmds THEN "unknown"
    ELSE "handled"

\* SchedulerAckConsumer._handle_ack, the whole handler for any message.
AckMessage(msg) ==
    LET outcome == AckOutcome(msg, commands)
    IN  \/ /\ outcome = "handled"
           /\ HandleAck(_parse_uuid(msg), msg.ok, msg.actual_state)
        \/ /\ outcome = "unknown"
           /\ LET out == _handle_ack(commands, devices, audit,
                                     _parse_uuid(msg), msg.ok,
                                     msg.actual_state)
              IN  /\ commands' = out.cmds
                  /\ devices' = out.devs
                  /\ audit' = out.log
           /\ ackDrop' = [kind |-> outcome, at |-> Len(audit)]
           /\ UNCHANGED <<lost, slot, dispatchVars, delivered, pubs, lateAcks,
                          plannerVars, life>>
        \/ /\ outcome \in {"exception", "no_data", "no_command_id"}
           /\ ackDrop' = [kind |-> outcome, at |-> Len(audit)]
           /\ UNCHANGED <<lost, slot, commands, devices, audit, dispatchVars,
                          delivered, pubs, lateAcks, plannerVars, life>>

\* The steps of the ack transaction at which a database error can be raised.
AckFailPoints == {"mark_ack", "update_device_state", "create_event", "commit"}

\* What the session holds, uncommitted, when the step fail_at raises.
AckPartial(cmds, devs, log, command_id, transport_ok, actual_state, fail_at) ==
    LET full == _handle_ack(cmds, devs, log, command_id, transport_ok,
                            actual_state)
    IN  [cmds |-> IF fail_at = "mark_ack" THEN cmds ELSE full.cmds,
         devs |-> IF fail_at \in {"mark_ack", "update_device_state"}
                  THEN devs ELSE full.devs,
         log |-> IF fail_at = "commit" THEN full.log ELSE log]

\* Mutant of _handle_ack_raising: the session commits each statement on its
\* own, what was written before the error stays.
_handle_ack_raising_autocommit(cmds, devs, log, command_id, transport_ok, actual_state, fail_at) ==
    AckPartial(cmds, devs, log, command_id, transport_ok, actual_state, fail_at)

\* _handle_ack when a step of the transaction raises: the with block is left
\* before db.commit() returned, _db_session closes the session, which rolls
\* the transaction back, and `except Exception` logs the error.
_handle_ack_raising(cmds, devs, log, command_id, transport_ok, actual_state, fail_at) ==
    LET session == AckPartial(cmds, devs, log, command_id, transport_ok,
                              actual_state, fail_at)
        committed == FALSE
    IN  IF committed THEN session
        ELSE [cmds |-> cmds, devs |-> devs, log |-> log]

\* An ack message for a command that reached the transport, handled while
\* the database fails at one step of the transaction.
HandleAckError(c, transport_ok, actual_state, fail_at) ==
    /\ c \in delivered
    /\ c \notin UNION {dlocked[q] : q \in Dispatchers}
    /\ LET out == _handle_ack_raising(commands, devices, audit, c,
                                      transport_ok, actual_state, fail_at)
       IN  /\ commands' = out.cmds
           /\ devices' = out.devs
           /\ audit' = out.log
    /\ ackDrop' = [kind |-> "exception", at |-> Len(audit)]
    /\ UNCHANGED <<lost, slot, dispatchVars, delivered, pubs, lateAcks, plannerVars,
                   life>>

\* ---------------------------------------------------------------- sweeper
RECURSIVE TimeoutEvents(_, _, _)
TimeoutEvents(cmds, log, rows) ==
    IF rows = {} THEN log
    ELSE LET c == CHOOSE i \in rows : \A j \in rows : i <= j
         IN  TimeoutEvents(cmds,
                 create_event(log, cmds[c].device_id, "SCHEDULER_ACK_FAILED",
                              "ACK_TIMEOUT", "none", c),
                 rows \ {c})

\* Mutant of SweepPass: the audit.create_event call is missing.
SweepPass_no_audit(cmds, log, rows) ==
    [cmds |-> claim_timeouts(cmds, rows), log |-> log]

\* Mutant of SweepPass: the pass ends without db.commit().
SweepPass_no_commit(cmds, log, rows) ==
    [cmds |-> cmds, log |-> log]

\* SchedulerTimeoutSweeper.run, one pass: claim_timeouts took rows; one audit
\* event per claimed command; commit.
SweepPass(cmds, log, rows) ==
    [cmds |-> claim_timeouts(cmds, rows),
     log |-> TimeoutEvents(cmds, log, rows)]

\* Mutant of Sweep: now_utc is read one sweep interval ahead of the clock.
Sweep_clock_ahead ==
    \E rows \in SUBSET TimedOut(commands, 1) :
        /\ Cardinality(rows) =
              Min(SweeperBatchSize, Cardinality(TimedOut(commands, 1)))
        /\ LET out == SweepPass(commands, audit, rows)
           IN  /\ commands' = out.cmds
               /\ audit' = out.log
        /\ UNCHANGED <<lost, ackDrop, slot, devices, dpc, dlocked, dnow, dbatch, dres, delivered, pubs, lateAcks, life,
                 plannerVars>>

\* Mutant of Sweep: claim_timeouts is called without the limit.
Sweep_unlimited ==
    /\ LET out == SweepPass(commands, audit, TimedOut(commands, 0))
       IN  /\ commands' = out.cmds
           /\ audit' = out.log
    /\ UNCHANGED <<lost, ackDrop, slot, devices, dpc, dlocked, dnow, dbatch, dres, delivered, pubs, lateAcks, life,
                 plannerVars>>

\* SchedulerTimeoutSweeper.run, one loop iteration at now_utc = now.
Sweep ==
    \E rows \in SUBSET TimedOut(commands, 0) :
        /\ Cardinality(rows) =
              Min(SweeperBatchSize, Cardinality(TimedOut(commands, 0)))
        /\ LET out == SweepPass(commands, audit, rows)
           IN  /\ commands' = out.cmds
               /\ audit' = out.log
        /\ UNCHANGED <<lost, ackDrop, slot, devices, dpc, dlocked, dnow, dbatch, dres, delivered, pubs, lateAcks, life,
                 plannerVars>>

\* ---------------------------------------------------------- planner steps
\* A planner process starts: SchedulerEngine.run up to its loop.
PlannerStart(p) ==
    /\ planner[p].pc = "off"
    /\ SumStarts(Planners) < MaxStarts
    /\ \E ping_ok \in BOOLEAN :
          planner' = [planner EXCEPT ![p] =
              [PlannerOff EXCEPT !.pc = "sleep",
                                 !.store = start(NewStore(IdempotencyTtlSec), ping_ok),
                                 !.starts = planner[p].starts + 1]]
    /\ UNCHANGED <<lost, ackDrop, slot, commands, audit, devices, dispatchVars, delivered, pubs,
                   lateAcks, life, wall, kv>>

\* A planner process ends (stop or crash): an open page transaction is
\* rolled back and the store's map is lost with the process.
PlannerStop(p) ==
    /\ planner[p].pc \notin {"off", "disabled"}
    /\ planner' = [planner EXCEPT ![p] =
                      [PlannerOff EXCEPT !.starts = planner[p].starts]]
    /\ UNCHANGED <<lost, ackDrop, slot, commands, audit, devices, dispatchVars, delivered, pubs,
                   lateAcks, life, wall, kv>>

\* Mutant of PlannerWake: the marker test is `>=` instead of `>`.
PlannerWake_or_equal(p) ==
    /\ planner[p].pc = "sleep"
    /\ LET minute_utc == Minute(wall)
       IN  /\ planner[p].last = Null \/ minute_utc >= planner[p].last
           /\ planner' = [planner EXCEPT ![p] =
                 AfterFetch([planner[p] EXCEPT !.pc = "due",
                                               !.minute = minute_utc,
                                               !.offset = 0])]
    /\ UNCHANGED <<lost, ackDrop, slot, commands, audit, devices, dispatchVars, delivered, pubs,
                   lateAcks, life, wall, kv>>

\* Mutant of PlannerWake: the minute after the marker is processed, not the
\* current one.
PlannerWake_backfill(p) ==
    /\ planner[p].pc = "sleep"
    /\ LET minute_utc == IF planner[p].last = Null THEN Minute(wall)
                         ELSE planner[p].last + 1
       IN  /\ planner[p].last = Null \/ Minute(wall) > planner[p].last
           /\ planner' = [planner EXCEPT ![p] =
                 AfterFetch([planner[p] EXCEPT !.pc = "due",
                                               !.minute = minute_utc,
                                               !.offset = 0])]
    /\ UNCHANGED <<lost, ackDrop, slot, commands, audit, devices, dispatchVars, delivered, pubs,
                   lateAcks, life, wall, kv>>

\* SchedulerEngine.run, one wake: a minute later than the last processed one
\* starts _process_minute with the first page.
PlannerWake(p) ==
    /\ planner[p].pc = "sleep"
    /\ LET minute_utc == Minute(wall)
       IN  /\ planner[p].last = Null \/ minute_utc > planner[p].last
           /\ planner' = [planner EXCEPT ![p] =
                 AfterFetch([planner[p] EXCEPT !.pc = "due",
                                               !.minute = minute_utc,
                                               !.offset = 0])]
    /\ UNCHANGED <<lost, ackDrop, slot, commands, audit, devices, dispatchVars, delivered, pubs,
                   lateAcks, life, wall, kv>>

\* Mutant of PlanWrite: the two skip event names are exchanged.
PlanWrite_names_swapped(pc, entry, minute_utc, decision) ==
    IF pc = "end"
    THEN [kind |-> "command",
          row |-> NewCommand(entry.device_id, entry.slot_id, minute_utc, "OFF",
                             "SCHEDULER_END")]
    ELSE IF decision.kind = "ALLOW_ON"
    THEN [kind |-> "command",
          row |-> NewCommand(entry.device_id, entry.slot_id, minute_utc, "ON",
                             decision.trigger_reason)]
    ELSE [kind |-> "event", device_id |-> entry.device_id,
          event_name |->
              IF decision.kind = "SKIP_NO_POWER_DATA"
              THEN "SCHEDULER_SKIPPED_THRESHOLD_NOT_MET"
              ELSE "SCHEDULER_SKIPPED_NO_POWER_DATA",
          trigger_reason |-> decision.trigger_reason]

\* Mutant of PlanWrite: the end scan consults the decision like the due scan.
PlanWrite_end_decided(pc, entry, minute_utc, decision) ==
    IF decision.kind = "ALLOW_ON"
    THEN [kind |-> "command",
          row |-> NewCommand(entry.device_id, entry.slot_id, minute_utc,
                             IF pc = "end" THEN "OFF" ELSE "ON",
                             IF pc = "end" THEN "SCHEDULER_END"
                                           ELSE decision.trigger_reason)]
    ELSE [kind |-> "event", device_id |-> entry.device_id,
          event_name |->
              IF decision.kind = "SKIP_NO_POWER_DATA"
              THEN "SCHEDULER_SKIPPED_NO_POWER_DATA"
              ELSE "SCHEDULER_SKIPPED_THRESHOLD_NOT_MET",
          trigger_reason |-> decision.trigger_reason]

\* _process_minute after the idempotency gate: a due entry is decided and
\* enqueued as ON or audited as skipped; an end entry is enqueued as OFF
\* without a decision.
PlanWrite(pc, entry, minute_utc, decision) ==
    IF pc = "end"
    THEN [kind |-> "command",
          row |-> NewCommand(entry.device_id, entry.slot_id, minute_utc, "OFF",
                             "SCHEDULER_END")]
    ELSE IF decision.kind = "ALLOW_ON"
    THEN [kind |-> "command",
          row |-> NewCommand(entry.device_id, entry.slot_id, minute_utc, "ON",
                             decision.trigger_reason)]
    ELSE [kind |-> "event", device_id |-> entry.device_id,
          event_name |->
              IF decision.kind = "SKIP_NO_POWER_DATA"
              THEN "SCHEDULER_SKIPPED_NO_POWER_DATA"
              ELSE "SCHEDULER_SKIPPED_THRESHOLD_NOT_MET",
          trigger_reason |-> decision.trigger_reason]

\* Mutant of PlanEntry: the `if not await acquire: continue` test is
\* missing.
PlanEntry_ungated(p) ==
    /\ planner[p].pc \in {"due", "end"}
    /\ planner[p].page # << >>
    /\ LET rec == planner[p]
           entry == Head(rec.page)
           action == IF rec.pc = "due" THEN "ON" ELSE "OFF"
           key == IdemKey(entry.device_id, entry.slot_id, rec.minute, action)
           decision == decide(entry, slot.provider, slot.latest)
           write == PlanWrite(rec.pc, entry, rec.minute, decision)
       IN  \E redis_error \in BOOLEAN :
             LET a == acquire(rec.store, kv, key, redis_error)
             IN  /\ kv' = a.kv
                 /\ planner' = [planner EXCEPT ![p] =
                       [rec EXCEPT
                          !.store = a.store,
                          !.page = Tail(rec.page),
                          !.done = rec.done + 1,
                          !.buf = Append(rec.buf, write)]]
    /\ UNCHANGED <<lost, ackDrop, slot, commands, audit, devices, dispatchVars, delivered, pubs,
                   lateAcks, life, wall>>

\* _process_minute, one entry of the open page: the idempotency gate, then
\* the decision and the write it asks for.
PlanEntry(p) ==
    /\ planner[p].pc \in {"due", "end"}
    /\ planner[p].page # << >>
    /\ LET rec == planner[p]
           entry == Head(rec.page)
           action == IF rec.pc = "due" THEN "ON" ELSE "OFF"
           key == IdemKey(entry.device_id, entry.slot_id, rec.minute, action)
           decision == decide(entry, slot.provider, slot.latest)
           write == PlanWrite(rec.pc, entry, rec.minute, decision)
       IN  \E redis_error \in BOOLEAN :
             LET a == acquire(rec.store, kv, key, redis_error)
             IN  /\ kv' = a.kv
                 /\ planner' = [planner EXCEPT ![p] =
                       [rec EXCEPT
                          !.store = a.store,
                          !.page = Tail(rec.page),
                          !.done = rec.done + 1,
                          !.buf = IF a.result THEN Append(rec.buf, write)
                                              ELSE rec.buf]]
    /\ UNCHANGED <<lost, ackDrop, slot, commands, audit, devices, dispatchVars, delivered, pubs,
                   lateAcks, life, wall>>

\* _process_minute, db.commit() of the page and the fetch of the next one.
PlanCommit(p) ==
    /\ planner[p].pc \in {"due", "end"}
    /\ planner[p].page = << >>
    /\ LET rec == planner[p]
           out == CommitWrites(commands, audit, rec.buf)
       IN  /\ Len(out.cmds) <= MaxCommands
           /\ commands' = out.cmds
           /\ audit' = out.log
           /\ pubs' = [i \in DOMAIN out.cmds |->
                          IF i \in DOMAIN pubs THEN pubs[i] ELSE <<0, 0>>]
           /\ planner' = [planner EXCEPT ![p] =
                 AfterFetch([rec EXCEPT !.offset = rec.offset + rec.done])]
    /\ UNCHANGED <<lost, ackDrop, slot, devices, dispatchVars, delivered, lateAcks, life, wall, kv>>

\* _acquire_entry_idempotency: the key under which a buffered write of the
\* open page passed the gate.
WriteKey(rec, w) ==
    IF w.kind = "command"
    THEN IdemKey(w.row.device_id, w.row.slot_id, w.row.minute_key, w.row.action)
    ELSE LET due == DueSlots(rec.minute)
             e == CHOOSE n \in 1..Len(due) : due[n].device_id = w.device_id
         IN  IdemKey(w.device_id, due[e].slot_id, rec.minute, "ON")

\* _process_minute, an exception inside the page transaction or the end of
\* the process after acquire returned true and before db.commit(): the
\* session closes without a commit, the buffered writes are gone, the
\* exception leaves run() and the store's map goes with the engine.  Nothing
\* deletes the key: a key acquired through Redis lives on to its TTL.
PlanFail(p) ==
    /\ planner[p].pc \in {"due", "end"}
    /\ planner[p].buf # << >>
    /\ LET rec == planner[p]
           keys == {WriteKey(rec, rec.buf[n]) : n \in 1..Len(rec.buf)}
       IN  lost' = [k \in PlanKeys |->
                       IF rec.store.redis /\ k \in keys
                       THEN wall + kv[k] ELSE lost[k]]
    /\ planner' = [planner EXCEPT ![p] =
                      [PlannerOff EXCEPT !.starts = planner[p].starts]]
    /\ UNCHANGED <<ackDrop, slot, commands, audit, devices, dispatchVars, delivered, pubs,
                   lateAcks, life, wall, kv>>

\* One acquire call on the store of planner 1, made by any caller for any
\* key; the call is recorded in win and twice.
IdemKeys == {IdemKey(1, 1, m, "ON") : m \in PlanMinutes}

IdemAcquire(key, redis_error) ==
    /\ planner[1].pc = "disabled"
    /\ LET rec == planner[1]
           a == acquire(rec.store, kv, key, redis_error)
       IN  /\ kv' = a.kv
           /\ planner' = [planner EXCEPT ![1] =
                 [rec EXCEPT
                    !.store = a.store,
                    !.win = IF a.result
                            THEN [rec.win EXCEPT ![key] = a.store.ttl_sec]
                            ELSE rec.win,
                    !.twice = IF a.result /\ rec.win[key] > 0
                              THEN rec.twice \cup {key}
                              ELSE rec.twice]]
    /\ UNCHANGED <<lost, ackDrop, slot, commands, audit, devices, dispatchVars, delivered, pubs,
                   lateAcks, life, wall>>

\* ------------------------------------------------------------------- time
\* One clock unit passes.  A claim whose now_utc is ack_timeout_sec old sets
\* deadlines that are due at once, however much older it gets.
Tick ==
    /\ (\E p \in Planners : planner[p].pc # "disabled") => wall < MaxWall
    /\ wall' = IF \E p \in Planners : planner[p].pc # "disabled"
               THEN wall + 1 ELSE wall
    /\ kv' = [k \in PlanKeys |-> IF kv[k] > 0 THEN kv[k] - 1 ELSE 0]
    /\ planner' = [p \in Planners |->
          [planner[p] EXCEPT
             !.store.memory = [k \in PlanKeys |-> Age(@[k])],
             !.win = [k \in PlanKeys |-> IF @[k] > 0 THEN @[k] - 1 ELSE 0]]]
    /\ dnow' = [r \in Dispatchers |->
                  IF dpc[r] = "claim_tx" THEN Min(dnow[r] + 1, AckTimeoutSec)
                  ELSE dnow[r]]
    /\ commands' = [i \in DOMAIN commands |->
                      [commands[i] EXCEPT !.ack_deadline_at = Age(@),
                                          !.next_attempt_at = Age(@)]]
    /\ devices' = [d \in Devices |->
                      [devices[d] EXCEPT !.last_state_change_at = Age(@)]]
    /\ UNCHANGED <<lost, ackDrop, slot, audit, dpc, dlocked, dbatch, dres, delivered, pubs, lateAcks, life>>

\* ------------------------------------------------------------------- Spec
\* The dispatcher replicas D.
Dispatch(D) ==
    \/ \E r \in D : ClaimSelect(r)
    \/ \E r \in D : ClaimCommit(r)
    \/ \E r \in D, k \in DOMAIN commands : _publish(r, k)
    \/ \E r \in D : FinishBatch(r)

\* The ack consumer, for whatever acks the devices send.
Acks ==
    \E c \in DOMAIN commands, ok \in BOOLEAN, st \in PinStates :
        HandleAck(c, ok, st)

\* Dispatcher replicas D, ack consumer and sweeper over a planned table.
Workers(D) ==
    \/ Dispatch(D)
    \/ Acks
    \/ Sweep
    \/ Tick

\* One process: dispatcher, ack consumer and sweeper.
Next == Workers({1})

Spec == Init /\ [][Next]_vars

\* The process keeps running: the clock advances and the dispatcher and the
\* sweeper loops keep taking their steps.  Nothing is assumed of the acks.
Fairness ==
    /\ WF_vars(Tick)
    /\ WF_vars(Sweep)
    /\ WF_vars(ClaimSelect(1))
    /\ WF_vars(ClaimCommit(1))
    /\ WF_vars(\E k \in DOMAIN commands : _publish(1, k))
    /\ WF_vars(FinishBatch(1))

FairSpec == Init /\ [][Next]_vars /\ Fairness

\* Two planner replicas beside a dispatcher and the sweeper; the command
\* table starts empty and the planners fill it.  The devices are silent: no
\* ack arrives.
InitPlanner ==
    /\ commands = << >>
    /\ pubs = << >>
    /\ planner = [p \in Planners |-> PlannerOff]
    /\ life = LifeStarted({"planner", "dispatcher", "sweeper"})
    /\ slot = NoThreshold
    /\ InitIdle

NextPlanner ==
    \/ Dispatch({1})
    \/ Sweep
    \/ Tick
    \/ \E p \in Planners : PlannerStart(p)
    \/ \E p \in Planners : PlannerStop(p)
    \/ \E p \in Planners : PlannerWake(p)
    \/ \E p \in Planners : PlanEntry(p)
    \/ \E p \in Planners : PlanCommit(p)

SpecPlanner == InitPlanner /\ [][NextPlanner]_vars

\* Two planner replicas on one Redis, both started while Redis answered,
\* whose page transactions may fail and which are started again; the slot
\* either enqueues or skips.
NoPowerData ==
    [NoThreshold EXCEPT !.use_power_threshold = TRUE,
                        !.power_threshold_value = PowerThreshold,
                        !.power_threshold_unit = "kW"]

InitLost ==
    /\ commands = << >>
    /\ pubs = << >>
    /\ planner = [p \in Planners |-> PlannerOff]
    /\ life = LifeStarted({"planner"})
    /\ slot \in {NoThreshold, NoPowerData}
    /\ InitIdle

\* A replica that shares the KV store: its start reached Redis.
PlannerStartShared(p) ==
    /\ PlannerStart(p)
    /\ planner'[p].store.redis

NextLost ==
    \/ Tick
    \/ \E p \in Planners : PlannerStartShared(p)
    \/ \E p \in Planners : PlannerWake(p)
    \/ \E p \in Planners : PlanEntry(p)
    \/ \E p \in Planners : PlanFail(p)
    \/ \E p \in Planners : PlanCommit(p)

SpecLost == InitLost /\ [][NextLost]_vars

\* One idempotency store, started with or without Redis, under any sequence
\* of acquire calls, Redis errors and passing time.
InitIdem ==
    /\ commands = << >>
    /\ pubs = << >>
    /\ life = LifeStarted({"planner"})
    /\ slot = NoThreshold
    /\ InitIdle
    /\ \E ping_ok \in BOOLEAN :
          planner = [p \in Planners |->
              [PlannerOff EXCEPT
                 !.pc = "disabled",
                 !.store = IF p = 1
                           THEN start(NewStore(IdempotencyTtlSec), ping_ok)
                           ELSE @]]

NextIdem ==
    \/ \E key \in IdemKeys, redis_error \in BOOLEAN : IdemAcquire(key, redis_error)
    \/ Tick

SpecIdem == InitIdem /\ [][NextIdem]_vars

\* Two processes: a second dispatcher replica claims beside the first.  The
\* devices are silent: no ack arrives.
NextReplicas ==
    \/ Dispatch(Dispatchers)
    \/ Sweep
    \/ Tick

SpecReplicas == Init /\ [][NextReplicas]_vars

\* One process with all four workers: planner 1 fills the table, dispatcher,
\* ack consumer and sweeper work on it.
InitAll ==
    /\ commands = << >>
    /\ pubs = << >>
    /\ planner = [p \in Planners |->
                     IF p = 1 THEN PlannerOff
                     ELSE [PlannerOff EXCEPT !.pc = "disabled"]]
    /\ life = LifeStarted(WorkerNames)
    /\ slot = NoThreshold
    /\ InitIdle

PlannerSteps(p) ==
    \/ PlannerStart(p)
    \/ PlannerWake(p)
    \/ PlanEntry(p)
    \/ PlanCommit(p)

NextAll ==
    \/ Workers({1})
    \/ PlannerSteps(1)

SpecAll == InitAll /\ [][NextAll]_vars

\* The planner of a later minute enqueues a new command for a device whose
\* last command is closed.  Command ids are random: the new row takes the
\* place of the closed one in the order of ids, and the closed row, which no
\* worker reads again, is followed no further.
Arrive(i) ==
    /\ i \in DOMAIN commands
    /\ commands[i].status \in Terminal
    /\ i \notin UNION {dlocked[q] : q \in Dispatchers}
    /\ \A r \in Dispatchers : \A k \in 1..Len(dbatch[r]) : dbatch[r][k] # i
    /\ commands' = [commands EXCEPT ![i] =
                       NewCommand(@.device_id, @.slot_id, @.minute_key,
                                  @.action, @.trigger_reason)]
    /\ audit' = SelectSeq(audit, LAMBDA e : e.cmd # i)
    /\ pubs' = [pubs EXCEPT ![i] = <<0, 0>>]
    /\ delivered' = delivered \ {i}
    /\ lateAcks' = lateAcks \ {i}
    /\ UNCHANGED <<lost, ackDrop, slot, devices, dispatchVars, life, plannerVars>>

\* One process whose command table keeps receiving new commands; the
\* devices are silent, the sweeper closes what was published.
NextArrive ==
    \/ Dispatch({1})
    \/ Sweep
    \/ Tick
    \/ \E i \in DOMAIN commands : Arrive(i)

SpecArrive == Init /\ [][NextArrive]_vars

\* The process keeps running (Fairness), so that every IN_FLIGHT command
\* leaves IN_FLIGHT; nothing is assumed of the arrivals.
FairArrive == SpecArrive /\ Fairness

\* One process whose ack subject carries any message at all.
AckMessages == \E msg \in Messages : AckMessage(msg)

NextAck ==
    \/ Dispatch({1})
    \/ AckMessages
    \/ Sweep
    \/ Tick

\* A table of one planned command: every other id is the id of no row.
InitAck ==
    /\ commands = <<NewCommand(1, 1, 0, "ON", "SCHEDULER_MATCH")>>
    /\ pubs = [i \in DOMAIN commands |-> <<0, 0>>]
    /\ planner = [p \in Planners |-> [PlannerOff EXCEPT !.pc = "disabled"]]
    /\ life = LifeStarted({"dispatcher", "ack", "sweeper"})
    /\ slot = NoThreshold
    /\ InitIdle

SpecAck == InitAck /\ [][NextAck]_vars

\* One process whose dispatcher's publish tasks are followed one by one.
NextTasks ==
    \/ ClaimSelectWide(1)
    \/ ClaimCommit(1)
    \/ \E k \in DOMAIN commands : PublishEnter(1, k)
    \/ \E k \in DOMAIN commands : PublishExit(1, k)
    \/ GatherDone(1)
    \/ Acks
    \/ Sweep
    \/ Tick

SpecTasks == Init /\ [][NextTasks]_vars

\* One process whose database may fail under the ack consumer at any step.
AckErrors ==
    \E c \in DOMAIN commands, ok \in BOOLEAN, st \in PinStates,
       fail_at \in AckFailPoints :
        HandleAckError(c, ok, st, fail_at)

NextAckTx ==
    \/ Dispatch({1})
    \/ Acks
    \/ AckErrors
    \/ Sweep
    \/ Tick

SpecAckTx == InitAck /\ [][NextAckTx]_vars

\* The wall clock as one planner reads it between two wakes: any reading, a
\* long pause ahead or an adjustment back.
ClockJump ==
    /\ \E w \in 0..MaxClock : wall' = w
    /\ UNCHANGED <<lost, ackDrop, slot, commands, audit, devices, dispatchVars, delivered, pubs,
                   lateAcks, life, kv, planner>>

\* One planner under an arbitrary clock.
NextMinutes ==
    \/ PlannerSteps(1)
    \/ ClockJump

SpecMinutes == InitAll /\ [][NextMinutes]_vars

\* ------------------------------------------------- workers under lifecycle
\* Process 1 as lifecycle.run drives it: planner 1, dispatcher 1, the ack
\* consumer and the sweeper are tasks; each has its stop event.
Running(w) == life.task[w] = "running"
Stopped(w) == life.stop[w]
Ended(w, how) == life' = [life EXCEPT !.task[w] = how]
OnlyLife ==
    UNCHANGED <<lost, ackDrop, slot, commands, audit, devices, dispatchVars, delivered, pubs,
                lateAcks, plannerVars>>

\* Mutant of DispatcherRun: the loop is `while True`.
DispatcherRun_ignoring_stop ==
    /\ Running("dispatcher")
    /\ \/ ClaimSelect(1)
       \/ ClaimCommit(1)
       \/ \E k \in DOMAIN commands : _publish(1, k)
       \/ FinishBatch(1)

\* SchedulerDispatcher.run: `while not self._stop_event.is_set()` guards the
\* claim; a batch that was claimed is published and its failures handled.
DispatcherRun ==
    /\ Running("dispatcher")
    /\ \/ ~Stopped("dispatcher") /\ ClaimSelect(1)
       \/ ClaimCommit(1)
       \/ \E k \in DOMAIN commands : _publish(1, k)
       \/ FinishBatch(1)

\* SchedulerDispatcher.run leaves its loop: the stop event is set when the
\* loop test runs (or wakes _sleep_or_stop).
DispatcherReturn ==
    /\ Running("dispatcher") /\ Stopped("dispatcher")
    /\ dpc[1] = "idle"
    /\ Ended("dispatcher", "done")
    /\ OnlyLife

\* A database error inside the claim transaction or inside
\* _handle_publish_failures: the session is closed without commit and the
\* exception leaves run(), which has no handler.
DispatcherError ==
    /\ Running("dispatcher")
    /\ \/ dpc[1] = "claim_tx"
       \/ /\ dpc[1] = "publish"
          /\ \A k \in 1..Len(dres[1]) : dres[1][k] # "wait"
          /\ \E k \in 1..Len(dres[1]) : dres[1][k] = "fail"
    /\ dpc' = [dpc EXCEPT ![1] = "idle"]
    /\ dlocked' = [dlocked EXCEPT ![1] = {}]
    /\ dbatch' = [dbatch EXCEPT ![1] = << >>]
    /\ dres' = [dres EXCEPT ![1] = << >>]
    /\ Ended("dispatcher", "crashed")
    /\ UNCHANGED <<lost, ackDrop, slot, commands, audit, devices, dnow, delivered, pubs, lateAcks,
                   plannerVars>>

\* SchedulerTimeoutSweeper.run: one sweep per loop iteration.
SweeperRun ==
    /\ Running("sweeper") /\ ~Stopped("sweeper")
    /\ Sweep

SweeperReturn ==
    /\ Running("sweeper") /\ Stopped("sweeper")
    /\ Ended("sweeper", "done")
    /\ OnlyLife

\* A database error inside a sweep: nothing is committed, run() raises.
SweeperError ==
    /\ Running("sweeper") /\ ~Stopped("sweeper")
    /\ Ended("sweeper", "crashed")
    /\ OnlyLife

\* SchedulerAckConsumer.run: wakes from `await self._stop_event.wait()` and
\* unsubscribes.
AckConsumerReturn ==
    /\ Running("ack") /\ Stopped("ack")
    /\ Ended("ack", "done")
    /\ OnlyLife

\* _process_minute with the stop event set: the open page is committed and
\* neither loop fetches another page; run() sets the marker.
PlanCommitStopped(p) ==
    /\ planner[p].pc \in {"due", "end"}
    /\ planner[p].page = << >>
    /\ LET rec == planner[p]
           out == CommitWrites(commands, audit, rec.buf)
       IN  /\ Len(out.cmds) <= MaxCommands
           /\ commands' = out.cmds
           /\ audit' = out.log
           /\ pubs' = [i \in DOMAIN out.cmds |->
                          IF i \in DOMAIN pubs THEN pubs[i] ELSE <<0, 0>>]
           /\ planner' = [planner EXCEPT ![p] =
                 [rec EXCEPT !.pc = "sleep", !.page = << >>, !.offset = 0,
                             !.done = 0, !.buf = << >>, !.last = rec.minute]]
    /\ UNCHANGED <<lost, ackDrop, slot, devices, dispatchVars, delivered, lateAcks, life, wall, kv>>

\* SchedulerEngine.run: the store is started whatever the stop event says;
\* the loop tests the event before a wake and before every page.
PlannerRun ==
    /\ Running("planner")
    /\ \/ PlannerStart(1)
       \/ ~Stopped("planner") /\ PlannerWake(1)
       \/ PlanEntry(1)
       \/ ~Stopped("planner") /\ PlanCommit(1)
       \/ Stopped("planner") /\ PlanCommitStopped(1)

\* SchedulerEngine.run leaves its loop and closes the store.
PlannerReturn ==
    /\ Running("planner") /\ Stopped("planner")
    /\ planner[1].pc = "sleep"
    /\ planner' = [planner EXCEPT ![1] =
                      [PlannerOff EXCEPT !.starts = planner[1].starts]]
    /\ Ended("planner", "done")
    /\ UNCHANGED <<lost, ackDrop, slot, commands, audit, devices, dispatchVars, delivered, pubs,
                   lateAcks, wall, kv>>

\* A database error inside a page transaction: the page is not committed and
\* the exception leaves _process_minute and run().
PlannerError ==
    /\ Running("planner")
    /\ planner[1].pc \in {"due", "end"}
    /\ planner' = [planner EXCEPT ![1] =
                      [PlannerOff EXCEPT !.starts = planner[1].starts]]
    /\ Ended("planner", "crashed")
    /\ UNCHANGED <<lost, ackDrop, slot, commands, audit, devices, dispatchVars, delivered, pubs,
                   lateAcks, wall, kv>>

\* The event loop runs another coroutine only while the dispatcher is
\* suspended at an await: its claim transaction has none.
Suspended == dpc[1] # "claim_tx"

\* stop() of one worker: sets its event, again if it is set already.
StopCall(w) ==
    /\ life.task[w] # "none"
    /\ Suspended
    /\ life' = [life EXCEPT !.stop[w] = TRUE]
    /\ OnlyLife

\* SIGINT / SIGTERM: _handle_shutdown sets shutdown_event.
Shutdown ==
    /\ life.pc = "running"
    /\ life' = [life EXCEPT !.pc = "signalled"]
    /\ OnlyLife

\* lifecycle.run after shutdown_event: `for stop in stoppers: await stop()`;
\* no stop() suspends, so the events are set in one step.
StopAll ==
    /\ life.pc = "signalled"
    /\ Suspended
    /\ life' = [life EXCEPT
                   !.pc = "gather",
                   !.stop = [w \in WorkerNames |-> life.task[w] # "none" \/ @[w]]]
    /\ OnlyLife

\* lifecycle.run: `await asyncio.gather(*tasks, return_exceptions=True)`
\* returns when every task has ended, then nats_client.close().
GatherAndClose ==
    /\ life.pc = "gather"
    /\ \A w \in WorkerNames : life.task[w] \in {"none", "done", "crashed"}
    /\ life' = [life EXCEPT !.pc = "done", !.transport = "closed"]
    /\ OnlyLife

\* An awaited call of a worker never completes: its task never ends.
WorkerNeverReturns(w) ==
    /\ Running(w)
    /\ Ended(w, "hung")
    /\ OnlyLife

\* The process from start to shutdown; the devices are silent.  An iteration
\* may fail on the database and an awaited call may never complete.
NextLife ==
    \/ DispatcherRun
    \/ DispatcherReturn
    \/ DispatcherError
    \/ SweeperRun
    \/ SweeperReturn
    \/ SweeperError
    \/ AckConsumerReturn
    \/ PlannerRun
    \/ PlannerReturn
    \/ PlannerError
    \/ \E w \in WorkerNames : WorkerNeverReturns(w)
    \/ Shutdown
    \/ StopAll
    \/ GatherAndClose
    \/ Tick

SpecLife == InitAll /\ [][NextLife]_vars

\* Every task keeps taking the steps it can take (the steps of one task are
\* never enabled together with its return); nothing is assumed of the
\* sweeper's polling, of stop calls, errors or the clock.
FairnessWorkers ==
    /\ WF_vars(DispatcherRun \/ DispatcherReturn)
    /\ WF_vars(SweeperReturn)
    /\ WF_vars(AckConsumerReturn)
    /\ WF_vars(PlannerRun \/ PlannerReturn)

\* lifecycle.run goes on after the signal whenever it can: the event loop
\* runs it at one of the dispatcher's awaits, which every iteration has.
FairnessLife ==
    /\ FairnessWorkers
    /\ SF_vars(StopAll)
    /\ WF_vars(GatherAndClose)

FairLife == SpecLife /\ FairnessLife

\* The four workers when stop() is called on any of them at any time, any
\* number of times; every awaited call completes.
NextStop ==
    \/ DispatcherRun
    \/ DispatcherReturn
    \/ SweeperRun
    \/ SweeperReturn
    \/ AckConsumerReturn
    \/ PlannerRun
    \/ PlannerReturn
    \/ \E w \in WorkerNames : StopCall(w)
    \/ Tick

SpecStop == InitAll /\ [][NextStop]_vars

FairStop == SpecStop /\ FairnessWorkers

\* ------------------------------------------------------- planner decisions
\* Providers and measurements the planner may find for the slot.
Providers ==
    {NoProvider} \cup [present : {TRUE}, enabled : BOOLEAN,
                       expected_interval_sec : {Null, ProviderInterval},
                       unit : {"W"}]

Measurements ==
    {NoMeasurement} \cup [present : {TRUE}, age : {0, ProviderInterval + 1},
                          measured_value : {Null, 1000 * (PowerThreshold - 1),
                                            1000 * (PowerThreshold + 1)},
                          measured_unit : {"none", "kw", "VA"}]

SlotConfigs ==
    [use_power_threshold : BOOLEAN,
     power_threshold_value : {Null, PowerThreshold},
     power_threshold_unit : {"none", "kW"},
     provider : Providers,
     latest : Measurements]

\* One planner over a slot of any configuration; no other worker runs.
InitDecide ==
    /\ commands = << >>
    /\ pubs = << >>
    /\ planner = [p \in Planners |->
                     IF p = 1 THEN PlannerOff
                     ELSE [PlannerOff EXCEPT !.pc = "disabled"]]
    /\ life = LifeStarted({"planner"})
    /\ slot \in SlotConfigs
    /\ InitIdle

\* The planner process is restarted between two ticks.
PlannerRestart ==
    /\ planner[1].pc = "sleep"
    /\ PlannerStop(1)

NextDecide ==
    \/ PlannerSteps(1)
    \/ PlannerRestart
    \/ Tick

SpecDecide == InitDecide /\ [][NextDecide]_vars

\* The inputs of decide around its boundaries: an interval that is null, 0
\* or positive, a measurement younger than, exactly as old as and older than
\* the interval, a value one watt below the threshold and equal to it.
TableProviders ==
    {NoProvider} \cup [present : {TRUE}, enabled : BOOLEAN,
                       expected_interval_sec : {Null, 0, ProviderInterval},
                       unit : {"W"}]

TableMeasurements ==
    {NoMeasurement} \cup [present : {TRUE},
                          age : {0, ProviderInterval, ProviderInterval + 1},
                          measured_value : {Null, 1000 * PowerThreshold - 1,
                                            1000 * PowerThreshold},
                          measured_unit : {"none", "kw", "VA"}]

TableConfigs ==
    [use_power_threshold : BOOLEAN,
     power_threshold_value : {Null, PowerThreshold},
     power_threshold_unit : {"none", "kW"},
     provider : TableProviders,
     latest : TableMeasurements]

\* One planner run over a slot of any of these configurations.
InitTable ==
    /\ commands = << >>
    /\ pubs = << >>
    /\ planner = [p \in Planners |->
                     IF p = 1 THEN PlannerOff
                     ELSE [PlannerOff EXCEPT !.pc = "disabled"]]
    /\ life = LifeStarted({"planner"})
    /\ slot \in TableConfigs
    /\ InitIdle

NextTable ==
    \/ PlannerSteps(1)
    \/ Tick

SpecTable == InitTable /\ [][NextTable]_vars

\* ---------------------------------------------------------------- startup
\* What main.py finds when it starts: the SCHEDULER_ENABLE_* flags and
\* whether the database and the NATS server can be reached.
Envs ==
    [enabled : SUBSET WorkerNames, sql : {"up", "down"}, nats : {"up", "down"}]

\* asyncio.run(run()) before lifecycle.run has created a task.
LifeBoot(env) ==
    [pc |-> "boot",
     stop |-> [w \in WorkerNames |-> FALSE],
     task |-> [w \in WorkerNames |-> "none"],
     transport |-> IF env.nats = "up" THEN "open" ELSE "down",
     env |-> env]

InitBoot ==
    /\ commands = << >>
    /\ pubs = << >>
    /\ planner = [p \in Planners |->
                     IF p = 1 THEN PlannerOff
                     ELSE [PlannerOff EXCEPT !.pc = "disabled"]]
    /\ \E env \in Envs : life = LifeBoot(env)
    /\ slot = NoThreshold
    /\ InitIdle

\* The exit code of the process: asyncio.run(run()) raises what run() raised
\* and returns when run() returned; Null while the process runs.
ExitCode ==
    IF life.pc = "failed" THEN 1 ELSE IF life.pc = "done" THEN 0 ELSE Null

\* lifecycle.run up to `await shutdown_event.wait()`: a task per enabled
\* worker, RuntimeError when there is none.  Neither the database nor the
\* transport is connected here: create_engine is lazy and nats_client
\* connects on first use inside a worker.
Boot ==
    /\ life.pc = "boot"
    /\ life' = IF life.env.enabled = {}
               THEN [life EXCEPT !.pc = "failed"]
               ELSE [life EXCEPT
                       !.pc = "running",
                       !.task = [w \in WorkerNames |->
                                   IF w \in life.env.enabled THEN "running"
                                   ELSE "none"]]
    /\ OnlyLife

\* SchedulerAckConsumer.run: `await nats_client.subscribe(...)` raises when
\* the server cannot be reached; the task ends, the process goes on.
AckSubscribeError ==
    /\ Running("ack")
    /\ life.env.nats = "down"
    /\ Ended("ack", "crashed")
    /\ OnlyLife

\* The first query of a worker's first iteration raises when the database
\* cannot be reached; the task ends, the process goes on.
FirstQueryError(w) ==
    /\ w \in {"planner", "dispatcher", "sweeper"}
    /\ Running(w)
    /\ life.env.sql = "down"
    /\ Ended(w, "crashed")
    /\ OnlyLife

\* The process from asyncio.run(run()) on.
NextBoot ==
    \/ Boot
    \/ AckSubscribeError
    \/ \E w \in WorkerNames : FirstQueryError(w)
    \/ life.env.sql = "up" /\ DispatcherRun
    \/ life.env.sql = "up" /\ SweeperRun
    \/ life.env.sql = "up" /\ PlannerRun
    \/ life.env.sql = "up" /\ DispatcherError
    \/ life.env.sql = "up" /\ SweeperError
    \/ life.env.sql = "up" /\ PlannerError
    \/ DispatcherReturn
    \/ SweeperReturn
    \/ PlannerReturn
    \/ life.env.nats = "up" /\ AckConsumerReturn
    \/ Shutdown
    \/ StopAll
    \/ GatherAndClose
    \/ Tick

SpecBoot == InitBoot /\ [][NextBoot]_vars

\* ================================================================ claims
StatusOf(c) == commands[c].status
InSomeBatch(c) ==
    \E r \in Dispatchers : \E k \in 1..Len(dbatch[r]) : dbatch[r][k] = c
EventsOf(c) == {n \in 1..Len(audit) : audit[n].cmd = c}
ClosedBy(c, reason) ==
    \E n \in EventsOf(c) : audit[n].trigger_reason = reason

\* C1: no two command rows share (device_id, slot_id, minute_key, action):
\* at most one of them is non-terminal, and the planner replicas that process
\* a minute create one row for a due entry between them, whatever the order
\* of their ticks and restarts.
C1_OneRowPerKey ==
    \A i, j \in DOMAIN commands :
        SameKey(commands[i], commands[j]) => i = j

\* C2: no acquire call returns true for a key inside the TTL window that an
\* earlier true result for that key opened, Redis errors or not.
C2_OncePerTtl == planner[1].twice = {}

C4_LateAckNoOp ==
    [][\A c \in DOMAIN commands :
          (/\ StatusOf(c) \in Terminal
           /\ \E ok \in BOOLEAN, st \in PinStates : HandleAck(c, ok, st))
          => UNCHANGED <<lost, ackDrop, slot, commands, audit, devices>>]_vars

\* C4 witness: a second ack arrived for a command an earlier ack had closed
\* as ACK_OK with a reported state.
C4_Witness ==
    \E c \in lateAcks :
        /\ StatusOf(c) = "ACK_OK"
        /\ devices[commands[c].device_id].manual_state # "none"

\* C5: under FairSpec every command that is IN_FLIGHT is later ACK_OK or
\* ACK_FAIL, whether or not an ack ever arrives and however many publishes
\* fail.
C5_InFlightCloses ==
    \A c \in 1..Cardinality(InitRows) :
        (StatusOf(c) = "IN_FLIGHT") ~> (StatusOf(c) \in Terminal)

\* C5 witness: a command that was claimed twice, never reached the transport,
\* got no ack, and is closed.
C5_Witness ==
    \E c \in DOMAIN commands :
        /\ StatusOf(c) \in Terminal /\ commands[c].attempt = MaxRetry + 1
        /\ c \notin delivered /\ pubs[c][1] = 0

\* C6: no microcontroller ever has more than max_inflight_per_microcontroller
\* commands IN_FLIGHT, also with two dispatcher replicas claiming at once.
C6_InflightCap ==
    \A mc \in Microcontrollers :
        Cardinality(InFlightOf(commands, mc)) <= MaxInflight

\* Events appended by the step for command c.
NewEventsOf(c) ==
    {n \in (Len(audit) + 1)..Len(audit') : audit'[n].cmd = c}

SweptOut(c) == StatusOf(c) = "ACK_FAIL" /\ ClosedBy(c, "ACK_TIMEOUT")

\* What a sweep may do to the table: only IN_FLIGHT rows whose deadline is
\* due change, and they change to ACK_FAIL and in nothing else.
SweepChangesOnlyDue ==
    Sweep => \A c \in DOMAIN commands :
                commands'[c] # commands[c] =>
                    /\ StatusOf(c) = "IN_FLIGHT"
                    /\ IsDue(commands[c].ack_deadline_at)
                    /\ commands'[c] = [commands[c] EXCEPT !.status = "ACK_FAIL"]

\* A command the sweeper closed is not claimed again: status and attempt stay
\* and no dispatcher takes it into a batch.
SweptNeverClaimed ==
    \A c \in DOMAIN commands :
        SweptOut(c) =>
            /\ commands'[c].status = "ACK_FAIL"
            /\ commands'[c].attempt = commands[c].attempt
            /\ \A r \in Dispatchers :
                  (\E k \in 1..Len(dbatch'[r]) : dbatch'[r][k] = c)
                      => (\E k \in 1..Len(dbatch[r]) : dbatch[r][k] = c)

AckClosed(c) == ClosedBy(c, "ACK_OK") \/ ClosedBy(c, "ACK_FAILED")

StatusBefore(c) == IF c \in DOMAIN commands THEN StatusOf(c) ELSE "absent"

AuditAppendOnly ==
    Len(audit') >= Len(audit) /\ SubSeq(audit', 1, Len(audit)) = audit

ExpectedEvent(c) ==
    IF commands'[c].status = "ACK_FAIL" THEN "SCHEDULER_ACK_FAILED"
    ELSE IF commands'[c].action = "ON" THEN "SCHEDULER_TRIGGER_ON"
    ELSE "DEVICE_OFF"

RetriedOnce(cmds, c) == cmds[c].attempt = 2 /\ pubs[c] = <<1, 1>>

\* C11: a command whose first publish failed, that was re-claimed after the
\* backoff and published successfully, and whose ok ack arrives while it is
\* IN_FLIGHT, ends ACK_OK, and exactly one audit event is ever written for it:
\* SCHEDULER_TRIGGER_ON for an ON command (DEVICE_OFF for an OFF command).
C11_RetryThenAckOneEvent ==
    [][\A c \in DOMAIN commands :
          /\ (/\ StatusOf(c) = "IN_FLIGHT"
              /\ RetriedOnce(commands, c)
              /\ \E st \in PinStates : HandleAck(c, TRUE, st))
                => commands'[c].status = "ACK_OK"
          /\ (commands'[c].status = "ACK_OK" /\ commands'[c].attempt = 2
                  /\ pubs'[c] = <<1, 1>>)
                => LET ev == {n \in 1..Len(audit') : audit'[n].cmd = c}
                   IN  /\ Cardinality(ev) = 1
                       /\ \A n \in ev :
                             /\ audit'[n].event_name =
                                   IF commands[c].action = "ON"
                                   THEN "SCHEDULER_TRIGGER_ON" ELSE "DEVICE_OFF"
                             /\ audit'[n].trigger_reason = "ACK_OK"]_vars

\* C11 witness: an ON command closed ACK_OK on its second attempt after one
\* failed and one successful publish.
C11_Witness ==
    \E c \in DOMAIN commands :
        /\ StatusOf(c) = "ACK_OK" /\ commands[c].action = "ON"
        /\ RetriedOnce(commands, c)
        /\ Cardinality(EventsOf(c)) = 1


Closes(c) == StatusOf(c) \notin Terminal /\ commands'[c].status \in Terminal
Moves(c, from, to) == StatusOf(c) \in from /\ commands'[c].status \in to
DispatcherMoves(c) ==
    \/ commands'[c].status = StatusOf(c)
    \/ Moves(c, {"PENDING", "PENDING_RETRY"}, {"IN_FLIGHT"})
    \/ Moves(c, {"IN_FLIGHT"}, {"PENDING_RETRY"})
PlannerInsertsOnly ==
    \/ /\ \A c \in DOMAIN commands :
              c \in DOMAIN commands' /\ commands'[c] = commands[c]
       /\ \A c \in DOMAIN commands' \ DOMAIN commands :
              commands'[c].status = "PENDING" /\ commands'[c].attempt = 0
    \/ ~PlannerSteps(1)

AgedDevice(d) == [devices[d] EXCEPT !.last_state_change_at = Age(@)]

\* C13: a device's manual_state and last_state_change_at change only in a
\* step of the ack consumer in which mark_ack moved the command to ACK_OK and
\* the ack carried a boolean actual_state; manual_state is then that state
\* and last_state_change_at is now.  An ack that results in ACK_FAIL, an ok
\* ack without a boolean state, and every planner, dispatcher and sweeper
\* step leave the runtime state of every device as it was (a clock step only
\* makes the stored instant one unit older).
C13_DeviceStateOwner ==
    [][/\ \A d \in Devices :
            \/ devices'[d] = devices[d]
            \/ devices'[d] = AgedDevice(d) /\ Tick
            \/ \E c \in DOMAIN commands, st \in PinStates \ {"none"} :
                  /\ commands[c].device_id = d
                  /\ Moves(c, NonTerminal, {"ACK_OK"})
                  /\ devices'[d] = [manual_state |-> st,
                                    last_state_change_at |-> 0]
                  /\ HandleAck(c, TRUE, st)
       /\ \/ devices' = devices
          \/ ~(\E c \in DOMAIN commands, st \in PinStates :
                  HandleAck(c, FALSE, st) \/ HandleAck(c, TRUE, "none"))
       /\ \/ devices' = devices
          \/ ~(Dispatch({1}) \/ Sweep \/ PlannerSteps(1))]_vars

\* C13 witness: an ok ack with a boolean state set the device's state, and a
\* failed ack closed another command.
C13_Witness ==
    \E c, e \in DOMAIN commands :
        /\ StatusOf(c) = "ACK_OK" /\ ClosedBy(c, "ACK_OK")
        /\ devices[commands[c].device_id].manual_state # "none"
        /\ e # c /\ StatusOf(e) = "ACK_FAIL" /\ ClosedBy(e, "ACK_FAILED")


\* C14: within one planner replica the minutes passed to _process_minute are
\* strictly increasing: a wake processes the minute it reads only if no minute
\* was processed yet or the minute is greater than the marker; the marker
\* only moves to the minute just processed, which is later than the marker
\* it replaces; a reading equal to or earlier than the marker starts nothing.
C14_MinutesIncrease ==
    [][\A p \in Planners :
          /\ PlannerWake(p) =>
                /\ planner'[p].minute = Minute(wall)
                /\ planner[p].last = Null \/ planner'[p].minute > planner[p].last
          /\ (planner[p].pc = "sleep" /\ planner[p].last # Null
                 /\ Minute(wall) <= planner[p].last)
                => planner'[p] = planner[p]
          /\ planner'[p].last # planner[p].last =>
                /\ planner'[p].last = planner'[p].minute
                /\ planner[p].last = Null \/ planner'[p].last > planner[p].last
          /\ planner[p].pc \in {"due", "end"} =>
                /\ planner'[p].minute = planner[p].minute
                /\ planner[p].last = Null \/ planner[p].minute > planner[p].last]_vars

\* C14 witness: the planner processed minute 0 and then minute 1, and the
\* clock now reads a minute before the marker.
C14_Witness ==
    /\ planner[1].pc = "sleep" /\ planner[1].last = 1
    /\ Len(commands) = 2
    /\ Minute(wall) = 0

\* C15: missed minutes are not backfilled: a wake that finds the clock more
\* than one minute past the marker processes the current minute only; the
\* marker then moves to it, so no skipped minute is processed later.
C15_NoBackfill ==
    [][\A p \in Planners :
          (/\ PlannerWake(p)
           /\ planner[p].last # Null
           /\ Minute(wall) > planner[p].last + 1)
            => /\ planner'[p].minute = Minute(wall)
               /\ planner'[p].last \in {planner[p].last, Minute(wall)}
               /\ planner'[p].pc = "sleep" => planner'[p].last = Minute(wall)]_vars

\* C15 witness: minute 0 was processed, the clock jumped to minute 2, which
\* was processed; the OFF command of minute 1 was never planned.
C15_Witness ==
    /\ planner[1].pc = "sleep" /\ planner[1].last = 2
    /\ Len(commands) = 1 /\ commands[1].minute_key = 0


\* C16: degradation of the idempotency store is one-way within a process
\* lifetime: an acquire whose Redis call raises leaves the store in in-memory
\* mode, a store in in-memory mode never gets its Redis client back, and an
\* acquire it serves does not touch Redis.
C16_DegradationOneWay ==
    [][/\ \A key \in IdemKeys :
            IdemAcquire(key, TRUE) => ~planner'[1].store.redis
       /\ ~planner[1].store.redis =>
            /\ ~planner'[1].store.redis
            /\ (\E key \in IdemKeys, e \in BOOLEAN : IdemAcquire(key, e))
                  => kv' = kv]_vars

\* C16 witness: a key was granted through Redis, a later Redis error switched
\* the store, and the in-memory map has served an acquire since.
C16_Witness ==
    /\ ~planner[1].store.redis
    /\ \E k \in IdemKeys : kv[k] > 0
    /\ \E k \in IdemKeys : planner[1].store.memory[k] # Null

\* C17: acquire returns to its caller in every case, and an acquire whose
\* Redis operation fails returns false.
C17_FailedBackendDenies ==
    [][\A key \in IdemKeys :
          (planner[1].store.redis /\ IdemAcquire(key, TRUE))
            => ~acquire(planner[1].store, kv, key, TRUE).result]_vars

\* C18: a database error raised inside one loop iteration of the planner, the
\* dispatcher or the sweeper does not end the worker (its task stays running
\* and goes on to the next iteration) and changes no command.
C18_ErrorKeepsWorker ==
    [][(life'.task = life.task /\ commands' = commands)
        \/ ~(DispatcherError \/ SweeperError \/ PlannerError)]_vars

\* What a step may do once stop() was called: the event stays set, a run()
\* that returned stays returned, the dispatcher opens no claim transaction,
\* the sweeper times nothing out and the planner fetches no page.
AfterStop ==
    /\ \A w \in WorkerNames :
          /\ Stopped(w) => life'.stop[w]
          /\ ~Running(w) => life'.task[w] = life.task[w]
    /\ Stopped("dispatcher") => dpc'[1] # "claim_tx"
    /\ Stopped("sweeper") => (commands' = commands \/ ~Sweep)
    /\ (Stopped("planner") /\ planner[1].page = << >>) => planner'[1].page = << >>

\* C19: stop() is idempotent and wakes run(): once stop() was called on a
\* worker, whenever and how often, its run() returns, and until then it
\* finishes the transaction or publish batch in progress and starts no new
\* claim, scan page or sweep.
C19_StopEndsRun ==
    /\ [][AfterStop]_vars
    /\ \A w \in WorkerNames : []<>(~(Stopped(w) /\ Running(w)))

\* Every run() has returned after a stop that came while the planner had
\* planned two commands and the dispatcher had claimed one of them.
C19_Witness ==
    /\ \A w \in WorkerNames : Stopped(w) /\ life.task[w] = "done"
    /\ Len(commands) = 2
    /\ \E c, e \in DOMAIN commands :
          commands[c].status = "IN_FLIGHT" /\ commands[e].status = "PENDING"

\* C20: after a shutdown signal the lifecycle stops every started worker,
\* waits for the tasks and only then closes the transport: the transport is
\* closed only when every worker was stopped and none is running, and the
\* shutdown completes, also when a worker never returns.
C20_ShutdownCompletes ==
    /\ [](life.transport = "closed" =>
            \A w \in WorkerNames : Stopped(w) /\ ~Running(w))
    /\ (life.pc = "signalled") ~> (life.transport = "closed")


\* C21: startup fails (non-zero exit) and starts no worker when no worker is
\* enabled and also when the database or the transport cannot be
\* initialised; a shutdown that follows a signal ends with exit code 0.
C21_StartupFailsCleanly ==
    [][/\ (life.pc = "boot" /\ life'.pc # "boot") =>
             /\ (life.env.enabled = {} \/ life.env.sql = "down"
                                       \/ life.env.nats = "down")
                   => (ExitCode' = 1 /\ \A w \in WorkerNames : life'.task[w] = "none")
       /\ (life.pc = "gather" /\ life'.pc # "gather") => ExitCode' = 0]_vars

\* The status changes of the command state machine.
StateMachine ==
    {<<"PENDING", "IN_FLIGHT">>, <<"IN_FLIGHT", "ACK_OK">>,
     <<"IN_FLIGHT", "ACK_FAIL">>, <<"IN_FLIGHT", "PENDING_RETRY">>,
     <<"PENDING_RETRY", "IN_FLIGHT">>}

\* Rows are never deleted and a new row is PENDING.
CreatedPending ==
    /\ \A c \in DOMAIN commands : c \in DOMAIN commands'
    /\ \A c \in DOMAIN commands' \ DOMAIN commands :
          commands'[c].status = "PENDING"

ClaimTime == 0 - dnow[1]

\* C23: every claim sets the command to IN_FLIGHT with attempt increased by
\* exactly 1 and ack_deadline_at = claim time + ack_timeout_sec (at least 1),
\* strictly later than the claim time; every IN_FLIGHT command has a
\* non-null ack_deadline_at and every PENDING or PENDING_RETRY command has a
\* null one.
C23_ClaimSetsDeadline ==
    /\ [](\A c \in DOMAIN commands :
            /\ commands[c].status = "IN_FLIGHT" => commands[c].ack_deadline_at # Null
            /\ commands[c].status \in {"PENDING", "PENDING_RETRY"}
                  => commands[c].ack_deadline_at = Null)
    /\ [][/\ \A c \in DOMAIN commands :
               \/ commands'[c].status # "IN_FLIGHT"
               \/ commands[c].status = "IN_FLIGHT"
               \/ /\ commands'[c].attempt = commands[c].attempt + 1
                  /\ commands'[c].ack_deadline_at = ClaimTime + AckTimeoutSec
                  /\ commands'[c].ack_deadline_at > ClaimTime
                  /\ AckTimeoutSec >= 1
          /\ \/ dpc[1] # "claim_tx"
             \/ dpc'[1] = "claim_tx"
             \/ \A k \in 1..Len(dbatch[1]) :
                   /\ commands[dbatch[1][k]].status \in {"PENDING", "PENDING_RETRY"}
                   /\ commands'[dbatch[1][k]].status = "IN_FLIGHT"]_vars

\* C23 witness: a command claimed for the second time, its deadline a full
\* ack timeout ahead, beside a command waiting for its retry.
C23_Witness ==
    \E c, e \in DOMAIN commands :
        /\ commands[c].status = "IN_FLIGHT"
        /\ commands[c].attempt = 2
        /\ commands[c].ack_deadline_at = AckTimeoutSec
        /\ commands[e].status = "PENDING_RETRY"

\* The planner's step on the first entry of its open page, and the acquire
\* call of that step with its answer.
EntryStep ==
    /\ planner[1].pc \in {"due", "end"}
    /\ planner[1].page # << >>
    /\ planner'[1].page # planner[1].page
EntryKey ==
    IdemKey(Head(planner[1].page).device_id, Head(planner[1].page).slot_id,
            planner[1].minute, IF planner[1].pc = "due" THEN "ON" ELSE "OFF")
Acquired(answer) ==
    \E redis_error \in BOOLEAN :
        LET a == acquire(planner[1].store, kv, EntryKey, redis_error)
        IN  a.result = answer /\ kv' = a.kv /\ planner'[1].store = a.store

\* C24: the planner buffers a command or a skip event for an entry only in a
\* step whose acquire call for the entry's key returned true, and commands
\* and audit events appear only when such a page is committed; when acquire
\* returned false nothing is written for the entry.
C24_GateBeforeWrite ==
    [][/\ EntryStep =>
             /\ commands' = commands /\ audit' = audit
             /\ \/ Acquired(TRUE) /\ Len(planner'[1].buf) = Len(planner[1].buf) + 1
                \/ Acquired(FALSE) /\ planner'[1].buf = planner[1].buf
       /\ (Len(commands') > Len(commands) \/ Len(audit') > Len(audit)) =>
             /\ planner[1].buf # << >>
             /\ planner[1].page = << >>
             /\ commands' = CommitWrites(commands, audit, planner[1].buf).cmds
             /\ audit' = CommitWrites(commands, audit, planner[1].buf).log]_vars

\* C24 witness: after a restart inside the minute the entry was denied and
\* the page holds nothing to commit.
C24_Witness ==
    /\ planner[1].starts = 2
    /\ planner[1].pc = "due" /\ planner[1].page = << >> /\ planner[1].done = 1
    /\ planner[1].buf = << >>
    /\ kv[IdemKey(1, 1, 0, "ON")] > 0

\* The commit of the planner's open page, and the decision for the slot.
CommitStep ==
    /\ planner[1].pc \in {"due", "end"}
    /\ planner[1].page = << >>
    /\ wall' = wall
    /\ planner'[1] # planner[1]
SlotDecision == decide(Entry(1, 1), slot.provider, slot.latest)
SkipEventName ==
    IF SlotDecision.kind = "SKIP_NO_POWER_DATA"
    THEN "SCHEDULER_SKIPPED_NO_POWER_DATA"
    ELSE "SCHEDULER_SKIPPED_THRESHOLD_NOT_MET"

\* C25: a due entry that passed the gate is, on ALLOW_ON, enqueued as one
\* PENDING ON command (nothing is added when a non-terminal command of the
\* key exists) with no audit event; on a SKIP decision it gets no command
\* and exactly one audit event, named after the kind of the decision, with
\* pin_state false and the decision's trigger reason.
C25_DueEntryOutcome ==
    [][(CommitStep /\ planner[1].pc = "due" /\ planner[1].buf # << >>) =>
          IF SlotDecision.kind = "ALLOW_ON"
          THEN /\ audit' = audit
               /\ LET row == NewCommand(1, 1, planner[1].minute, "ON",
                                        SlotDecision.trigger_reason)
                  IN  IF \E c \in DOMAIN commands :
                            SameKey(commands[c], row)
                               /\ commands[c].status \in NonTerminal
                      THEN commands' = commands
                      ELSE /\ commands' = Append(commands, row)
                           /\ row.status = "PENDING" /\ row.action = "ON"
          ELSE /\ commands' = commands
               /\ Len(audit') = Len(audit) + 1
               /\ SubSeq(audit', 1, Len(audit)) = audit
               /\ LET e == audit'[Len(audit')]
                  IN  /\ e.device_id = 1
                      /\ e.event_name = SkipEventName
                      /\ e.pin_state = "false"
                      /\ e.trigger_reason = SlotDecision.trigger_reason]_vars

\* C25 witness: the measurement is below the threshold; the due entry left
\* one SCHEDULER_SKIPPED_THRESHOLD_NOT_MET event and no command.
C25_Witness ==
    /\ SlotDecision.kind = "SKIP_THRESHOLD_NOT_MET"
    /\ commands = << >>
    /\ Len(audit) = 1
    /\ audit[1].event_name = "SCHEDULER_SKIPPED_THRESHOLD_NOT_MET"
    /\ planner[1].last = 0

\* C26: an end entry that passed the gate is enqueued as an OFF command with
\* trigger reason SCHEDULER_END whatever the slot's threshold, provider and
\* measurement are; the end scan takes no decision and writes no skip event.
C26_EndAlwaysOff ==
    [][(CommitStep /\ planner[1].pc = "end" /\ planner[1].buf # << >>) =>
          /\ audit' = audit
          /\ LET row == NewCommand(1, 1, planner[1].minute, "OFF",
                                   "SCHEDULER_END")
             IN  /\ planner[1].buf = <<[kind |-> "command", row |-> row]>>
                 /\ row.status = "PENDING"
                 /\ IF \E c \in DOMAIN commands :
                           SameKey(commands[c], row)
                              /\ commands[c].status \in NonTerminal
                    THEN commands' = commands
                    ELSE commands' = Append(commands, row)]_vars

\* C26 witness: the slot's decision is a skip (its due entry left a skip
\* event), and the end entry still left its OFF command.
C26_Witness ==
    /\ SlotDecision.kind # "ALLOW_ON"
    /\ slot.use_power_threshold
    /\ Len(audit) >= 1
    /\ \E c \in DOMAIN commands :
          /\ commands[c].action = "OFF"
          /\ commands[c].trigger_reason = "SCHEDULER_END"
          /\ commands[c].status = "PENDING"
    /\ \A c \in DOMAIN commands : commands[c].action = "OFF"

\* The messages the handler has to drop, told by the payload alone.
Malformed(msg) ==
    msg.raw # "dict" \/ msg.data # "dict" \/ msg.cid_kind # "uuid"
Unknown(msg) == msg.cid_kind = "uuid" /\ msg.cid \notin DOMAIN commands

\* C27: an ack that is not valid JSON, has no data object, has a missing or
\* malformed command_id, or names no command changes no command, device or
\* audit event, and leaves the ack consumer running and subscribed.
C27_BadAckDropped ==
    [][\/ /\ UNCHANGED <<commands, devices, audit, delivered, life>>
          /\ Running("ack")
       \/ \A msg \in Messages :
             ~(Malformed(msg) \/ Unknown(msg)) \/ ~AckMessage(msg)]_vars

\* C27 witness: a message with a malformed command_id was dropped, and a
\* later ack was handled: its event was appended after the drop.
C27_Witness ==
    /\ ackDrop.kind = "no_command_id"
    /\ Len(audit) > ackDrop.at
    /\ audit[Len(audit)].trigger_reason = "ACK_OK"
    /\ Running("ack")

\* The event an ack that reported actual_state st has to leave for command c.
AckEvent(c, st) ==
    [device_id |-> commands[c].device_id,
     event_name |-> IF commands'[c].status # "ACK_OK"
                    THEN "SCHEDULER_ACK_FAILED"
                    ELSE IF commands[c].action = "ON"
                    THEN "SCHEDULER_TRIGGER_ON" ELSE "DEVICE_OFF",
     trigger_reason |-> IF commands'[c].status = "ACK_OK" THEN "ACK_OK"
                                                           ELSE "ACK_FAILED",
     pin_state |-> st,
     cmd |-> c]

\* C28: each ack that changes a command appends exactly one audit event:
\* SCHEDULER_TRIGGER_ON for ACK_OK of an ON command, DEVICE_OFF for ACK_OK of
\* an OFF command, SCHEDULER_ACK_FAILED otherwise, with trigger_reason ACK_OK
\* or ACK_FAILED after the status and pin_state the reported actual_state.
C28_AckEvent ==
    [][\/ commands' = commands
       \/ \A c \in DOMAIN commands, ok \in BOOLEAN, st \in PinStates :
             \/ audit' = Append(audit, AckEvent(c, st))
             \/ ~HandleAck(c, ok, st)]_vars

\* C28 witness: both commands were closed by acks; the OFF command's ok ack
\* reported state false and left DEVICE_OFF, the ON command's negative ack
\* reported no state and left SCHEDULER_ACK_FAILED.
C28_Witness ==
    /\ \E n \in DOMAIN audit :
          /\ audit[n].event_name = "DEVICE_OFF"
          /\ audit[n].trigger_reason = "ACK_OK"
          /\ audit[n].pin_state = "false"
          /\ commands[audit[n].cmd].action = "OFF"
          /\ commands[audit[n].cmd].status = "ACK_OK"
    /\ \E n \in DOMAIN audit :
          /\ audit[n].event_name = "SCHEDULER_ACK_FAILED"
          /\ audit[n].trigger_reason = "ACK_FAILED"
          /\ audit[n].pin_state = "none"
          /\ commands[audit[n].cmd].action = "ON"
          /\ commands[audit[n].cmd].status = "ACK_FAIL"

\* C29: at every moment at most max_concurrency publish calls of one
\* dispatcher are in progress, whatever the batch holds and in whatever order
\* its publish tasks run.
C29_PublishWidth ==
    \A r \in Dispatchers : Cardinality(InProgress(r)) <= Max(1, MaxConcurrency)

\* C29 witness: a batch of more commands than the semaphore is wide; one
\* publish is in progress and another task of the batch waits for it.
C29_Witness ==
    /\ Len(dbatch[1]) > Max(1, MaxConcurrency)
    /\ Cardinality(InProgress(1)) = Max(1, MaxConcurrency)
    /\ \E k \in 1..Len(dres[1]) : dres[1][k] = "wait"

\* Command c is in the open batch of dispatcher 1 with its publish not done.
PublishPending(c) ==
    /\ dpc[1] = "publish"
    /\ \E k \in 1..Len(dbatch[1]) :
          dbatch[1][k] = c /\ dres[1][k] \in {"wait", "run"}

\* Command c is IN_FLIGHT and the publish of its last claim succeeded.
PublishedOk(c) ==
    /\ StatusOf(c) = "IN_FLIGHT"
    /\ \A k \in 1..Len(dbatch[1]) :
          (dpc[1] = "publish" /\ dbatch[1][k] = c) => dres[1][k] = "ok"

\* The dispatcher's step from the gathered results to the next pass.
BatchEnds == dpc[1] = "publish" /\ dpc'[1] = "idle"

ClaimStep(r) == dpc[r] = "idle" /\ dpc'[r] = "claim_tx"
InOpenBatch(c) ==
    \E r \in Dispatchers :
        dpc[r] = "publish" /\ \E k \in 1..Len(dbatch[r]) : dbatch[r][k] = c

Eligible(c) ==
    /\ StatusOf(c) \in {"PENDING", "PENDING_RETRY"}
    /\ commands[c].next_attempt_at = Null \/ commands[c].next_attempt_at <= 0

\* C32: while the dispatcher keeps running and every IN_FLIGHT command leaves
\* IN_FLIGHT, every PENDING or PENDING_RETRY command whose next_attempt_at
\* has passed is eventually claimed (or closed meanwhile), also while new
\* PENDING commands keep arriving.
C32_NoStarvation ==
    \A c \in 1..Cardinality(InitRows) :
        Eligible(c) ~> (StatusOf(c) \notin {"PENDING", "PENDING_RETRY"})

\* The commands the step moves to ACK_FAIL, and the events it appends.
MovedToFail == {c \in DOMAIN commands :
                   StatusOf(c) # "ACK_FAIL" /\ commands'[c].status = "ACK_FAIL"}
NewEvents == (Len(audit) + 1)..Len(audit')
TimeoutEvent(c) ==
    [device_id |-> commands[c].device_id,
     event_name |-> "SCHEDULER_ACK_FAILED", trigger_reason |-> "ACK_TIMEOUT",
     pin_state |-> "none", cmd |-> c]

\* C33: a sweep moves at most batch_size commands to ACK_FAIL and appends,
\* in the same step, exactly one SCHEDULER_ACK_FAILED event with
\* trigger_reason ACK_TIMEOUT and pin_state null for each of them and nothing
\* else; no step writes an ACK_TIMEOUT event without moving its command from
\* IN_FLIGHT to ACK_FAIL.
C33_SweepBatchAndEvents ==
    [][/\ \/ /\ Cardinality(MovedToFail) <= Max(1, SweeperBatchSize)
             /\ Len(audit') = Len(audit) + Cardinality(MovedToFail)
             /\ SubSeq(audit', 1, Len(audit)) = audit
             /\ \A c \in MovedToFail :
                   /\ StatusOf(c) = "IN_FLIGHT"
                   /\ Cardinality({n \in NewEvents :
                                      audit'[n] = TimeoutEvent(c)}) = 1
          \/ ~Sweep
       /\ \A n \in NewEvents :
             audit'[n].trigger_reason = "ACK_TIMEOUT"
                => audit'[n].cmd \in MovedToFail]_vars

\* C33 witness: two commands had timed out; the sweep of batch size one
\* closed one of them with its event and left the other IN_FLIGHT.
C33_Witness ==
    \E c, e \in DOMAIN commands :
        /\ StatusOf(c) = "ACK_FAIL"
        /\ \E n \in DOMAIN audit : audit[n] = TimeoutEvent(c)
        /\ StatusOf(e) = "IN_FLIGHT"
        /\ commands[e].ack_deadline_at = 0
        /\ Len(audit) = 1

\* The decision table of the slot's inputs, row by row: condition, result and
\* trigger reason.
TableUnit ==
    IF _normalize_unit(slot.latest.measured_unit) = "none"
    THEN _normalize_unit(slot.provider.unit)
    ELSE _normalize_unit(slot.latest.measured_unit)
Convertible ==
    /\ TableUnit \in {"W", "kW", "MW"}
    /\ _normalize_unit(slot.power_threshold_unit) \in {"W", "kW", "MW"}
Watts(value, unit) == value * _POWER_FACTORS[unit]
DecisionTable ==
    <<<<~slot.use_power_threshold, "ALLOW_ON", "SCHEDULER_MATCH">>,
      <<slot.power_threshold_value = Null
           \/ _normalize_unit(slot.power_threshold_unit) = "none",
        "SKIP_NO_POWER_DATA", "THRESHOLD_CONFIG_MISSING">>,
      <<~slot.provider.present \/ ~slot.provider.enabled,
        "SKIP_NO_POWER_DATA", "POWER_PROVIDER_UNAVAILABLE">>,
      <<slot.provider.expected_interval_sec = Null
           \/ slot.provider.expected_interval_sec <= 0,
        "SKIP_NO_POWER_DATA", "POWER_INTERVAL_MISSING">>,
      <<~slot.latest.present, "SKIP_NO_POWER_DATA", "POWER_MISSING">>,
      <<slot.latest.age > slot.provider.expected_interval_sec,
        "SKIP_NO_POWER_DATA", "POWER_STALE">>,
      <<slot.latest.measured_value = Null,
        "SKIP_NO_POWER_DATA", "POWER_MISSING">>,
      <<~Convertible, "SKIP_NO_POWER_DATA", "POWER_UNIT_MISMATCH">>,
      <<Convertible
           /\ Watts(slot.latest.measured_value, TableUnit)
                 >= Watts(slot.power_threshold_value,
                          _normalize_unit(slot.power_threshold_unit)),
        "ALLOW_ON", "SCHEDULER_MATCH">>,
      <<TRUE, "SKIP_THRESHOLD_NOT_MET", "THRESHOLD_NOT_MET">>>>
FirstRow == CHOOSE n \in 1..Len(DecisionTable) :
               /\ DecisionTable[n][1]
               /\ \A k \in 1..(n - 1) : ~DecisionTable[k][1]

\* C34: decide returns the result and the trigger reason of the first row
\* of the decision table that matches, with the measured value and unit on
\* the last two rows only; a measurement exactly expected_interval_sec old is
\* not stale, a converted value equal to the threshold gives ALLOW_ON; and
\* the write the planner buffers for the due entry is the one of that row.
C34_DecisionTable ==
    LET d == decide(Entry(1, 1), slot.provider, slot.latest)
    IN  /\ d.kind = DecisionTable[FirstRow][2]
        /\ d.trigger_reason = DecisionTable[FirstRow][3]
        /\ (d.measured_value # << >>) <=> FirstRow >= 9
        /\ (FirstRow >= 6 /\ slot.latest.age = slot.provider.expected_interval_sec)
              => d.trigger_reason # "POWER_STALE"
        /\ (FirstRow >= 9
               /\ Watts(slot.latest.measured_value, TableUnit)
                     = Watts(slot.power_threshold_value,
                             _normalize_unit(slot.power_threshold_unit)))
              => d.kind = "ALLOW_ON"
        /\ \A n \in 1..Len(planner[1].buf) :
              planner[1].pc = "due" =>
                 LET w == planner[1].buf[n]
                 IN  /\ (w.kind = "command") <=> (d.kind = "ALLOW_ON")
                     /\ w.kind = "event" => w.trigger_reason = d.trigger_reason

\* C34 witness: the measurement is exactly expected_interval_sec old and
\* equal to the threshold after conversion, and the planner enqueued the ON
\* command.
C34_Witness ==
    /\ slot.use_power_threshold
    /\ FirstRow = 9
    /\ slot.latest.age = slot.provider.expected_interval_sec
    /\ Watts(slot.latest.measured_value, TableUnit)
          = Watts(slot.power_threshold_value,
                  _normalize_unit(slot.power_threshold_unit))
    /\ \E c \in DOMAIN commands :
          commands[c].action = "ON"
             /\ commands[c].trigger_reason = "SCHEDULER_MATCH"

\* C35: one ack is handled in one transaction: a step of the ack consumer
\* changes the command's status exactly when it appends the audit event, and
\* updates the device state only together with both; when a step of the
\* handler raises, no command, device or audit event changes, and the ack
\* consumer keeps running, so that the command stays open for a later ack or
\* the sweeper.
C35_AckAtomic ==
    [][/\ \/ /\ (commands' # commands) <=> (Len(audit') = Len(audit) + 1)
             /\ (commands' = commands) => (audit' = audit)
             /\ (devices' # devices) => (commands' # commands)
          \/ ~Acks
       /\ \/ /\ UNCHANGED <<commands, devices, audit, delivered, life>>
             /\ Running("ack")
          \/ ~AckErrors]_vars

\* C35 witness: the handler raised on an ack for the command, which stayed
\* IN_FLIGHT; a later ack closed it ACK_OK with device state and event.
C35_Witness ==
    /\ ackDrop.kind = "exception"
    /\ ackDrop.at = 0
    /\ StatusOf(1) = "ACK_OK"
    /\ Len(audit) = 1
    /\ audit[1].cmd = 1 /\ audit[1].trigger_reason = "ACK_OK"
    /\ devices[1].manual_state = "true"


\* The trigger reasons and the event names of the audit events of command c.
ReasonsOf(c) == {audit[n].trigger_reason : n \in EventsOf(c)}
NamesOf(c) == {audit[n].event_name : n \in EventsOf(c)}

Published(c) ==
    \/ pubs'[c] # pubs[c]
    \/ c \in delivered' /\ c \notin delivered

\* Command c sits in a claim transaction that has not committed yet.
InClaimTx(c) ==
    \E r \in Dispatchers :
        dpc[r] = "claim_tx" /\ \E k \in 1..Len(dbatch[r]) : dbatch[r][k] = c

\* C37: a command is published only after the transaction that claimed it
\* as IN_FLIGHT has committed: at a publish the command is in the batch of a
\* dispatcher whose claim has committed, it has been claimed at least once and
\* its stored status is neither PENDING nor PENDING_RETRY; while a claim
\* transaction is open nothing of it is published.
C37_PublishAfterCommit ==
    [][\A c \in DOMAIN commands :
          Published(c) =>
              /\ InOpenBatch(c)
              /\ ~InClaimTx(c)
              /\ commands[c].attempt >= 1
              /\ StatusOf(c) \notin {"PENDING", "PENDING_RETRY"}
              /\ commands'[c] = commands[c]]_vars

\* A retry was claimed and published: the command has been PENDING_RETRY, its
\* second claim committed, and the second publish went out while another
\* command of the table has never been claimed nor published.
C37_Witness ==
    \E c, e \in DOMAIN commands :
        /\ commands[c].attempt = 2
        /\ pubs[c] = <<1, 1>>
        /\ StatusOf(c) = "IN_FLIGHT"
        /\ StatusOf(e) = "PENDING"
        /\ commands[e].attempt = 0
        /\ pubs[e] = <<0, 0>>
        /\ e \notin delivered


\* The page commit of planner p writes a command or a skip event.
PlanWrites(p) ==
    /\ PlanCommit(p)
    /\ commands' # commands \/ audit' # audit

\* C38: the planner never releases a key it acquired: a key of the KV store
\* goes only with its TTL, and after a page transaction failed or the process
\* stopped between an acquire that returned true and the commit, no replica
\* writes a command or a skip event for that (device, slot, minute, action)
\* while the TTL of the lost acquisition runs.
C38_LostKeyStaysLost ==
    [][/\ \A k \in PlanKeys :
             kv'[k] < kv[k] => kv'[k] = kv[k] - 1 /\ wall' = wall + 1
       /\ \A p \in Planners :
             \/ \A n \in 1..Len(planner[p].buf) :
                   lost[WriteKey(planner[p], planner[p].buf[n])] <= wall
             \/ ~PlanWrites(p)]_vars

====
